---- MODULE Spec2Model ----
(***************************************************************************)
(* A model of the scene controllers of the threeExamples repository and of *)
(* the physics adapter they share.  Every scene instance is independent of *)
(* the others (no state is shared between scenes), so each scene has its   *)
(* own specification over its own variables:                               *)
(*                                                                         *)
(*   SpecC      ThreeSceneC (hadron collider) with its PhysicsEngine       *)
(*   SpecPhysics a PhysicsEngine and a caller of its methods               *)
(*   FairSpecC  SpecC with time passing and frames arriving                *)
(*   SpecE      ThreeSceneE (asteroids game)                               *)
(*   SpecHits   ThreeSceneE with asteroids that run into the ship          *)
(*   SpecShots  ThreeSceneE with a volley of shots at the asteroids        *)
(*   SpecB      ThreeSceneB (product configurator) and its component       *)
(*   SpecD      ThreeSceneD (lottery viewer) and LotteryAnalyzer's request *)
(*   SpecLoads  one of the scenes B, C and D                               *)
(*   SpecLogger the logger singleton and the component loggers             *)
(*   SpecShaders ShaderManager and the callers of find and createMaterial  *)
(*                                                                         *)
(* Time is the value of Date.now(), in milliseconds.  It advances in steps *)
(* of TickMs; callbacks (animation frames, timers, promise continuations)  *)
(* run to completion, one at a time, as on the browser's event loop.       *)
(***************************************************************************)
EXTENDS Integers, Sequences, FiniteSets, TLC

VARIABLES
    now,            \* Date.now()
    sceneC,         \* the fields of the ThreeSceneC instance
    physicsEngine,  \* the fields of its PhysicsEngine
    threeC,         \* its ThreeManager: the scene graph and the meshes' positions
    envC,           \* what the browser holds for it: promises, timers, errors
    envP,           \* a caller of the PhysicsEngine: its latest call, pending inits
    sceneE,         \* the fields of the ThreeSceneE instance
    threeE,         \* its ThreeManager: the scene graph
    envE,           \* what the browser holds for it: promises, listeners, callbacks
    sceneB,         \* the fields of the ThreeSceneB instance and of its LoadingBar
    threeB,         \* its ThreeManager: the scene graph and the model groups
    envB,           \* what the browser holds for it: loadModel calls, timers
    sceneD,         \* the fields of the ThreeSceneD instance and of its LoadingBar
    envD,           \* what the browser holds for it: requests, promises, timers
    loggerConfig,   \* the config field of the logger singleton
    LOGGING_CONFIG, \* the exported configuration object of loggerConfig.ts
    console,        \* what the latest logging call wrote to the console
    envL,           \* the latest logging call
    shaderManager,  \* the static fields of ShaderManager
    threeObjects,   \* the THREE objects that uniform values refer to
    held,           \* what a caller got from find() or createMaterial()
    envS            \* the latest call of ShaderManager and whether it threw

varsC == <<sceneC, physicsEngine, threeC, envC>>

varsP == <<envP>>

varsE == <<sceneE, threeE, envE>>

varsB == <<sceneB, threeB, envB>>

varsD == <<sceneD, envD>>

varsL == <<loggerConfig, LOGGING_CONFIG, console, envL>>

varsS == <<shaderManager, threeObjects, held, envS>>

\* What a callback of one scene leaves alone: the other scenes (and, for
\* the scenes that do not read the clock, the clock).
othersC == <<varsP, varsE, varsB, varsD, varsL, varsS>>

othersP == <<now, sceneC, envC, varsE, varsB, varsD, varsL, varsS>>

othersE == <<now, varsC, varsP, varsB, varsD, varsL, varsS>>

othersB == <<now, varsC, varsP, varsE, varsD, varsL, varsS>>

othersD == <<now, varsC, varsP, varsE, varsB, varsL, varsS>>

othersL == <<now, varsC, varsP, varsE, varsB, varsD, varsS>>

othersS == <<now, varsC, varsP, varsE, varsB, varsD, varsL>>

----------------------------------------------------------------------------
(* Bounds of the model.                                                    *)

\* The collision cycles explored (cap on currentCycleNumber).
MaxCycles == 2
\* SpecPhysics: the bodies and meshes made, the init() calls pending at once.
MaxBodies == 2
MaxMeshes == 3
MaxInits == 2
\* How many ticks after the end of a phase the next animation frame may come.
MaxLate == 1
\* Collision effects (groups of particles) alive at the same time.
MaxEffects == 1
\* ThreeSceneE: the cap on level, and on the bullets and explosions made.
MaxLevel == 2
MaxShots == 1
MaxExplosions == 1
\* ThreeSceneE: the bullets and running explosions at the same time.
MaxInFlight == 1
\* ThreeSceneE, in SpecHits: the explosions made (one per hit).
MaxHits == 14
\* ThreeSceneE, in SpecHits: the asteroids that touch the ship in one frame.
MaxTouching == 4
\* ThreeSceneE, in SpecShots: the bullets made.
MaxVolley == 3
\* ThreeSceneB: the calls of loadModel after the constructor's.
MaxLoadCalls == 2

\* The THREE objects alive at once (those nothing refers to are collected).
MaxObjects == 12

\* The changes a caller makes to one definition or material it got.
MaxChanges == 1
\* ThreeSceneE: display frames come in runs of FramesPerStep; key events,
\* load completions, dispose() and collisions fall between two runs.
FramesPerStep == 10

----------------------------------------------------------------------------
(* Helpers.                                                                *)

Null == 0 - 1

Put(f, k, v) == [x \in (DOMAIN f) \cup {k} |-> IF x = k THEN v ELSE f[x]]

Drop(f, ks) == [x \in (DOMAIN f) \ ks |-> f[x]]

Range(s) == {s[i] : i \in DOMAIN s}

Min(a, b) == IF a <= b THEN a ELSE b

Max(a, b) == IF a >= b THEN a ELSE b

Abs(v) == IF v < 0 THEN 0 - v ELSE v

----------------------------------------------------------------------------
(* ThreeSceneC: program constants.                                         *)

phaseDurations == [setup |-> 500, firing |-> 0, physics |-> 8000, cleanup |-> 1000]

Phases == {"setup", "firing", "physics", "cleanup"}

\* The granularity of time: the shortest non-zero phase.
TickMs == phaseDurations["setup"]

\* Date.now() at construction: large against every duration (phaseStartTime
\* starts at 0, so the first elapsed time exceeds every phase duration).
StartTime == phaseDurations["physics"] + phaseDurations["cleanup"]

StartCycleDelay == 2000
StartCycleRetryDelay == 500

\* Math.random(), in tenths: the draws the model makes.
RandomTenths == {0, 6, 9}

\* particleCount = Math.floor(Math.random() * 9) + 8
ParticleCountBase == 8
ParticleCountSpread == 9
ParticleCount(random) == ((random * ParticleCountSpread) \div 10) + ParticleCountBase
ParticleCounts == {ParticleCount(r) : r \in RandomTenths}

\* Positions are x coordinates: atoms are launched around x = -6 and x = +6,
\* the side walls stand at x = -20 and x = +20.
LaunchX == 6
ChamberX == 20

\* speed = 6.0 + Math.random() * 4.0; an effect needs velocity.length() > 5.0
LaunchSpeed == 6
EffectSpeed == 5

\* createCollisionEffect makes 8 particles of opacity 0.8 (opacity is kept in
\* tenths: 8).  A particle is removed when its opacity is below 0.1.
EffectParticleCount == 8
EffectOpacity == 8

----------------------------------------------------------------------------
(* PhysicsEngine.  The operators take and return a heap h = [c, pe, three,  *)
(* thrown]: the scene's fields, the engine's fields, the ThreeManager, and  *)
(* whether an exception is propagating.                                     *)

NotInitialized(pe) == ~pe.world \/ ~pe.initialized

\* RAPIER.World.step(): every dynamic body moves by its velocity (a step
\* covers one unit of time), until a side wall stops it.
WorldStep(bodies) ==
    [id \in DOMAIN bodies |->
        LET b == bodies[id]
            p == b.translation + b.linvel
        IN  IF ~b.dynamic \/ b.linvel = 0 \/ Abs(p) >= ChamberX THEN b
            ELSE [b EXCEPT !.translation = p]]

PhysicsEngine_addStaticBox(h, mesh, position) ==
    IF NotInitialized(h.pe) THEN [h EXCEPT !.thrown = TRUE]
    ELSE LET id == h.pe.nextBodyId
         IN  [h EXCEPT !.pe.bodies = Put(@, id, [mesh |-> mesh, dynamic |-> FALSE,
                                                 translation |-> position, linvel |-> 0]),
                       !.pe.nextBodyId = id + 1]

PhysicsEngine_addDynamicSphere(h, mesh, position) ==
    IF NotInitialized(h.pe) THEN [h EXCEPT !.thrown = TRUE]
    ELSE LET id == h.pe.nextBodyId
         IN  [h EXCEPT !.pe.bodies = Put(@, id, [mesh |-> mesh, dynamic |-> TRUE,
                                                 translation |-> position, linvel |-> 0]),
                       !.pe.nextBodyId = id + 1]

PhysicsEngine_setVelocity(h, bodyId, velocity) ==
    IF bodyId \notin DOMAIN h.pe.bodies THEN h
    ELSE [h EXCEPT !.pe.bodies[bodyId].linvel = velocity]

\* The position the physics world reports for the mesh of a body.
ReportedPosition(bodies, mesh) ==
    bodies[CHOOSE id \in DOMAIN bodies : bodies[id].mesh = mesh].translation

SyncMeshes(position, bodies) ==
    [m \in DOMAIN position |->
        IF \E id \in DOMAIN bodies : bodies[id].mesh = m
        THEN ReportedPosition(bodies, m)
        ELSE position[m]]

\* step without the copy of the bodies' positions to their meshes.
PhysicsEngine_step_NoSync(h) ==
    IF NotInitialized(h.pe) THEN h
    ELSE [h EXCEPT !.pe.bodies = WorldStep(@)]

PhysicsEngine_step(h) ==
    IF NotInitialized(h.pe) THEN h
    ELSE LET stepped == WorldStep(h.pe.bodies)
         IN  [h EXCEPT !.pe.bodies = stepped,
                       !.three.position = SyncMeshes(@, stepped)]

PhysicsEngine_removeBody(h, bodyId) ==
    IF bodyId \notin DOMAIN h.pe.bodies \/ ~h.pe.world THEN h
    ELSE [h EXCEPT !.pe.bodies = Drop(@, {bodyId})]

RECURSIVE RemoveBodies(_, _)
RemoveBodies(h, ids) ==
    IF ids = <<>> THEN h
    ELSE RemoveBodies(PhysicsEngine_removeBody(h, Head(ids)), Tail(ids))

PhysicsEngine_clearAllBodies(h) ==
    [h EXCEPT !.pe.bodies = IF h.pe.world THEN <<>> ELSE @]

\* getVelocity and getPosition return null (here: the empty set) or a vector.
PhysicsEngine_getVelocity(pe, bodyId) ==
    IF bodyId \notin DOMAIN pe.bodies THEN {} ELSE {pe.bodies[bodyId].linvel}

PhysicsEngine_getPosition(pe, bodyId) ==
    IF bodyId \notin DOMAIN pe.bodies THEN {} ELSE {pe.bodies[bodyId].translation}

\* dispose that starts the ids again from 0.
PhysicsEngine_dispose_ResetsIds(h) ==
    LET h1 == IF h.pe.world
              THEN [PhysicsEngine_clearAllBodies(h) EXCEPT !.pe.world = FALSE]
              ELSE h
    IN  [h1 EXCEPT !.pe.initialized = FALSE, !.pe.nextBodyId = 0]

PhysicsEngine_dispose(h) ==
    LET h1 == IF h.pe.world
              THEN [PhysicsEngine_clearAllBodies(h) EXCEPT !.pe.world = FALSE]
              ELSE h
    IN  [h1 EXCEPT !.pe.initialized = FALSE]

\* The continuation of PhysicsEngine.init after RAPIER.init() has resolved.
PhysicsEngine_initResolved(h) ==
    [h EXCEPT !.pe.world = TRUE, !.pe.initialized = TRUE]

----------------------------------------------------------------------------
(* ThreeSceneC.                                                            *)

\* new THREE.Mesh(...): a fresh object.  Atoms and walls are numbered from 0
\* upwards; the particles of collision effects from -1 downwards.
NewMesh(h) == h.three.nextObject

AddToScene(h, mesh, position) ==
    [h EXCEPT !.three.nextObject = @ + 1,
              !.three.scene = @ \cup {mesh},
              !.three.position = Put(@, mesh, position)]

AddWall(h, position, isFloor) ==
    IF h.thrown THEN h
    ELSE LET mesh == NewMesh(h)
             h1 == AddToScene(h, mesh, position)
             id == h1.pe.nextBodyId
             h2 == PhysicsEngine_addStaticBox(h1, mesh, position)
         IN  IF h2.thrown THEN h2
             ELSE IF isFloor THEN [h2 EXCEPT !.c.floorPhysicsId = id]
             ELSE [h2 EXCEPT !.c.wallPhysicsIds = Append(@, id)]

createPhysicsWalls(h) ==
    IF ~h.c.physicsInitialized THEN h
    ELSE AddWall(AddWall(AddWall(AddWall(h, 0, TRUE), 0, FALSE),
                         0 - ChamberX, FALSE), ChamberX, FALSE)

\* One iteration of the loops of setupRandomParticles.
CreateAtom(h, position, velocity) ==
    IF h.thrown THEN h
    ELSE LET atom == NewMesh(h)
             h1 == [AddToScene(h, atom, position) EXCEPT !.c.atoms = Append(@, atom)]
             physicsId == h1.pe.nextBodyId
             h2 == PhysicsEngine_addDynamicSphere(h1, atom, position)
         IN  IF h2.thrown THEN h2
             ELSE PhysicsEngine_setVelocity(
                      [h2 EXCEPT !.c.atomPhysicsIds = Append(@, physicsId)],
                      physicsId, velocity)

RECURSIVE CreateAtoms(_, _, _, _)
CreateAtoms(h, count, position, velocity) ==
    IF count = 0 THEN h
    ELSE CreateAtoms(CreateAtom(h, position, velocity), count - 1, position, velocity)

\* setupRandomParticles without the removal of the previous atoms' bodies.
setupRandomParticles_KeepBodies(h, particleCount) ==
    IF ~h.c.physicsInitialized THEN h
    ELSE LET h2 == [h EXCEPT !.three.scene = @ \ Range(h.c.atoms),
                             !.three.position = Drop(@, Range(h.c.atoms)),
                             !.c.atoms = <<>>,
                             !.c.atomPhysicsIds = <<>>]
             leftSideCount == (particleCount + 1) \div 2
             rightSideCount == particleCount - leftSideCount
             h3 == CreateAtoms(h2, leftSideCount, 0 - LaunchX, LaunchSpeed)
         IN  CreateAtoms(h3, rightSideCount, LaunchX, 0 - LaunchSpeed)

setupRandomParticles(h, particleCount) ==
    IF ~h.c.physicsInitialized THEN h
    ELSE LET h1 == RemoveBodies(h, h.c.atomPhysicsIds)
             h2 == [h1 EXCEPT !.three.scene = @ \ Range(h.c.atoms),
                              !.three.position = Drop(@, Range(h.c.atoms)),
                              !.c.atoms = <<>>,
                              !.c.atomPhysicsIds = <<>>]
             leftSideCount == (particleCount + 1) \div 2
             rightSideCount == particleCount - leftSideCount
             h3 == CreateAtoms(h2, leftSideCount, 0 - LaunchX, LaunchSpeed)
         IN  CreateAtoms(h3, rightSideCount, LaunchX, 0 - LaunchSpeed)

clearCollisionParticles(h) ==
    [h EXCEPT !.three.scene = @ \ {p.mesh : p \in Range(h.c.particles)},
              !.c.particles = <<>>]

beginNewCycle(h, t, particleCount) ==
    LET h1 == [h EXCEPT !.c.currentCycleNumber = @ + 1,
                        !.c.collisionPhase = "setup",
                        !.c.phaseStartTime = t]
    IN  setupRandomParticles(clearCollisionParticles(h1), particleCount)

\* advancePhase going from physics straight to the next cycle.
advancePhase_NoCleanup(h, t, particleCount) ==
    CASE h.c.collisionPhase \in {"setup", "firing"} ->
            [h EXCEPT !.c.collisionPhase = "physics", !.c.phaseStartTime = t]
      [] OTHER -> beginNewCycle(h, t, particleCount)

\* advancePhase with the firing phase not skipped.
advancePhase_ViaFiring(h, t, particleCount) ==
    CASE h.c.collisionPhase = "setup" ->
            [h EXCEPT !.c.collisionPhase = "firing", !.c.phaseStartTime = t]
      [] h.c.collisionPhase = "firing" ->
            [h EXCEPT !.c.collisionPhase = "physics", !.c.phaseStartTime = t]
      [] h.c.collisionPhase = "physics" ->
            [h EXCEPT !.c.collisionPhase = "cleanup", !.c.phaseStartTime = t]
      [] h.c.collisionPhase = "cleanup" ->
            beginNewCycle(h, t, particleCount)

advancePhase(h, t, particleCount) ==
    CASE h.c.collisionPhase = "setup" ->
            [h EXCEPT !.c.collisionPhase = "physics", !.c.phaseStartTime = t]
      [] h.c.collisionPhase = "firing" ->
            [h EXCEPT !.c.collisionPhase = "physics", !.c.phaseStartTime = t]
      [] h.c.collisionPhase = "physics" ->
            [h EXCEPT !.c.collisionPhase = "cleanup", !.c.phaseStartTime = t]
      [] h.c.collisionPhase = "cleanup" ->
            beginNewCycle(h, t, particleCount)

\* The groups of effect particles alive, and the first free group number.
Groups(particles) == {p.group : p \in Range(particles)}

FreeGroup(particles) ==
    CHOOSE g \in 0 .. Cardinality(Groups(particles)) :
        /\ g \notin Groups(particles)
        /\ \A k \in 0 .. (g - 1) : k \in Groups(particles)

ParticleMesh(group, i) == 0 - (group * EffectParticleCount + i)

createCollisionEffect(h) ==
    LET g == FreeGroup(h.c.particles)
        made == [i \in 1 .. EffectParticleCount |->
                    [mesh |-> ParticleMesh(g, i), group |-> g, opacity |-> EffectOpacity]]
    IN  [h EXCEPT !.c.particles = @ \o made,
                  !.three.scene = @ \cup {ParticleMesh(g, i) : i \in 1 .. EffectParticleCount}]

\* The atoms createCollisionParticleEffects may make an effect for.
FastAtoms(h) ==
    {i \in DOMAIN h.c.atomPhysicsIds :
        /\ \E velocity \in PhysicsEngine_getVelocity(h.pe, h.c.atomPhysicsIds[i]) :
               Abs(velocity) > EffectSpeed
        /\ PhysicsEngine_getPosition(h.pe, h.c.atomPhysicsIds[i]) # {}}

RECURSIVE CreateEffects(_, _)
CreateEffects(h, effects) ==
    IF effects = 0 THEN h ELSE CreateEffects(createCollisionEffect(h), effects - 1)

\* effects: for how many of the fast atoms Math.random() < 0.1 held.
createCollisionParticleEffects(h, effects) == CreateEffects(h, effects)

\* material.opacity *= 0.995 lowers an opacity by less than a tenth: the
\* tenth stays or drops by one.  fading: the groups whose tenth drops.
FadeParticle(p, fading) ==
    IF p.group \in fading THEN [p EXCEPT !.opacity = Max(0, @ - 1)] ELSE p

IsFaded(p) == p.opacity < 1

updatePhysicsPhase(h, effects, fading) ==
    LET h1 == createCollisionParticleEffects(h, effects)
        faded == [i \in DOMAIN h1.c.particles |-> FadeParticle(h1.c.particles[i], fading)]
        gone == {p.mesh : p \in {q \in Range(faded) : IsFaded(q)}}
    IN  [h1 EXCEPT !.c.particles = SelectSeq(faded, LAMBDA p : ~IsFaded(p)),
                   !.three.scene = @ \ gone]

updateCleanupPhase(h) ==
    [h EXCEPT !.c.particles = [i \in DOMAIN @ |-> [@[i] EXCEPT !.opacity = Max(0, @ - 1)]]]

PhaseComplete(c, t) == t - c.phaseStartTime >= phaseDurations[c.collisionPhase]

updatePhysics(h, t, in) ==
    IF ~h.c.isLoaded \/ ~h.c.physicsInitialized THEN h
    ELSE LET h1 == PhysicsEngine_step(h)
         IN  IF PhaseComplete(h1.c, t) THEN advancePhase(h1, t, in.particleCount)
             ELSE CASE h1.c.collisionPhase = "physics" ->
                          updatePhysicsPhase(h1, in.effects, in.fading)
                    [] h1.c.collisionPhase = "cleanup" -> updateCleanupPhase(h1)
                    [] OTHER -> h1

animate(h, t, in) ==
    LET h1 == [h EXCEPT !.c.animationId = 1]
    IN  IF h1.c.isLoaded THEN updatePhysics(h1, t, in) ELSE h1

\* A dispose that marks the scene with a phase of its own.
dispose_OwnPhase(h) ==
    LET h1 == PhysicsEngine_dispose([h EXCEPT !.c.animationId = Null])
    IN  [h1 EXCEPT !.c.collisionPhase = "disposed",
                   !.c.atoms = <<>>,
                   !.c.particles = <<>>,
                   !.c.atomPhysicsIds = <<>>,
                   !.c.wallPhysicsIds = <<>>,
                   !.c.floorPhysicsId = Null,
                   !.c.loadingBar = FALSE]

dispose(h) ==
    LET h1 == PhysicsEngine_dispose([h EXCEPT !.c.animationId = Null])
    IN  [h1 EXCEPT !.c.collisionPhase = "setup",
                   !.c.atoms = <<>>,
                   !.c.particles = <<>>,
                   !.c.atomPhysicsIds = <<>>,
                   !.c.wallPhysicsIds = <<>>,
                   !.c.floorPhysicsId = Null,
                   !.c.loadingBar = FALSE]

\* startCollisionSequence, up to the timers it sets.
startCollisionSequence(h) == [h EXCEPT !.c.isLoaded = TRUE]

\* initAsync after physicsEngine.init() has resolved: the rest of init(),
\* then createGrids ... startCollisionSequence.
initAsyncResolved(h) ==
    LET h1 == createPhysicsWalls([PhysicsEngine_initResolved(h)
                                     EXCEPT !.c.physicsInitialized = TRUE])
    IN  IF h1.thrown THEN h1 ELSE startCollisionSequence(h1)

----------------------------------------------------------------------------
(* ThreeSceneC: the state after construction, and the callbacks.           *)

InitC ==
    /\ sceneC = [atoms |-> <<>>, particles |-> <<>>, animationId |-> Null,
                 loadingBar |-> TRUE, isLoaded |-> FALSE,
                 physicsInitialized |-> FALSE, atomPhysicsIds |-> <<>>,
                 floorPhysicsId |-> Null, wallPhysicsIds |-> <<>>,
                 collisionPhase |-> "setup", phaseStartTime |-> 0,
                 currentCycleNumber |-> 0]
    /\ physicsEngine = [world |-> FALSE, bodies |-> <<>>, nextBodyId |-> 0,
                        initialized |-> FALSE]
    /\ threeC = [scene |-> {}, position |-> <<>>, nextObject |-> 0]
    \* physicsInit, initAsync: the promises of physicsEngine.init() and of
    \* initAsync(); startCycle: when the startCycle timer is due; uncaught: an
    \* exception left a callback; animating: the owner has called animate();
    \* disposed: dispose() has returned.
    /\ envC = [physicsInit |-> "pending", initAsync |-> "pending",
               startCycle |-> Null, uncaught |-> FALSE,
               animating |-> FALSE, disposed |-> FALSE]

HeapC == [c |-> sceneC, pe |-> physicsEngine, three |-> threeC, thrown |-> FALSE]

StoreC(h) ==
    /\ sceneC' = h.c
    /\ physicsEngine' = h.pe
    /\ threeC' = h.three
    /\ UNCHANGED othersC

\* RAPIER.init() resolves: PhysicsEngine.init, init and initAsync run on.
RapierInitResolves ==
    /\ envC.physicsInit = "pending"
    /\ LET h == initAsyncResolved(HeapC)
       IN  /\ StoreC(h)
           /\ envC' = [envC EXCEPT !.physicsInit = "fulfilled",
                                   !.initAsync = "fulfilled",
                                   !.startCycle = IF h.thrown THEN Null
                                                  ELSE now + StartCycleDelay]
    /\ UNCHANGED now

\* RAPIER.init() rejects: PhysicsEngine.init logs and rethrows, init rejects,
\* initAsync catches and logs.
RapierInitRejects ==
    /\ envC.physicsInit = "pending"
    /\ envC' = [envC EXCEPT !.physicsInit = "rejected", !.initAsync = "fulfilled"]
    /\ UNCHANGED <<now, sceneC, physicsEngine, threeC, othersC>>

\* The startCycle timer of startCollisionSequence fires.
StartCycleTimer ==
    /\ envC.startCycle # Null
    /\ now >= envC.startCycle
    /\ sceneC.currentCycleNumber < MaxCycles
    /\ IF sceneC.physicsInitialized
       THEN \E particleCount \in ParticleCounts :
               LET h == beginNewCycle(HeapC, now, particleCount)
               IN  /\ StoreC(h)
                   /\ envC' = [envC EXCEPT !.startCycle = Null,
                                           !.uncaught = @ \/ h.thrown]
       ELSE /\ envC' = [envC EXCEPT !.startCycle = now + StartCycleRetryDelay]
            /\ UNCHANGED <<sceneC, physicsEngine, threeC, othersC>>
    /\ UNCHANGED now

\* The owner of the scene calls animate() once, after construction.
StartAnimationC ==
    /\ ~envC.animating
    /\ ~envC.disposed
    /\ StoreC(animate(HeapC, now, [particleCount |-> ParticleCountBase,
                                  effects |-> 0, fading |-> {}]))
    /\ envC' = [envC EXCEPT !.animating = TRUE]
    /\ UNCHANGED now

\* Whether the frame at time t ends the cleanup phase and begins a cycle.
BeginsCycle(c, t) ==
    /\ c.isLoaded /\ c.physicsInitialized
    /\ c.collisionPhase = "cleanup"
    /\ PhaseComplete(c, t)

\* The effects a frame may create: one per fast atom at most.
EffectChoices ==
    IF sceneC.isLoaded /\ sceneC.physicsInitialized
       /\ sceneC.collisionPhase = "physics" /\ ~PhaseComplete(sceneC, now)
    THEN 0 .. Min(Cardinality(FastAtoms(HeapC)),
                  MaxEffects - Cardinality(Groups(sceneC.particles)))
    ELSE {0}

\* The groups of particles whose opacity a frame may lower by a tenth.
FadingChoices(effects) ==
    IF effects > 0 \/ sceneC.particles # <<>>
    THEN SUBSET (0 .. (Cardinality(Groups(sceneC.particles)) + effects - 1))
    ELSE {{}}

\* An animation frame: the callback requestAnimationFrame was given.
AnimateC ==
    /\ sceneC.animationId # Null
    /\ BeginsCycle(sceneC, now) => sceneC.currentCycleNumber < MaxCycles
    /\ \E particleCount \in IF BeginsCycle(sceneC, now) THEN ParticleCounts
                             ELSE {ParticleCountBase},
          effects \in EffectChoices :
       \E fading \in FadingChoices(effects) :
          LET h == animate(HeapC, now, [particleCount |-> particleCount,
                                        effects |-> effects, fading |-> fading])
          IN  /\ StoreC(h)
              /\ envC' = [envC EXCEPT !.uncaught = @ \/ h.thrown]
    /\ UNCHANGED now

\* The instants at which the scene can behave differently from the instant
\* before: when the startCycle timer is due and, while frames arrive, the end
\* of the current phase and the MaxLate ticks after it.
Deadlines ==
    (IF envC.startCycle # Null THEN {envC.startCycle} ELSE {})
    \cup (IF sceneC.animationId # Null /\ sceneC.isLoaded /\ sceneC.physicsInitialized
          THEN {sceneC.phaseStartTime + phaseDurations[sceneC.collisionPhase]
                    + late * TickMs : late \in 0 .. MaxLate}
          ELSE {})

\* Time passes, up to a later deadline.  A timer that is due fires before
\* time passes on.
TickC ==
    /\ \E t \in Deadlines :
          /\ t > now
          /\ envC.startCycle # Null => t <= envC.startCycle
          /\ now' = t
    /\ UNCHANGED <<varsC, othersC>>

\* The owner of the scene calls dispose().
DisposeC ==
    /\ ~envC.disposed
    /\ StoreC(dispose(HeapC))
    /\ envC' = [envC EXCEPT !.disposed = TRUE]
    /\ UNCHANGED now

NextC ==
    \/ RapierInitResolves
    \/ RapierInitRejects
    \/ StartCycleTimer
    \/ StartAnimationC
    \/ AnimateC
    \/ TickC
    \/ DisposeC

----------------------------------------------------------------------------
(* A caller of a PhysicsEngine: the calls of its public methods, and the   *)
(* settling of RAPIER.init().                                              *)

\* pending: the init() calls waiting for RAPIER.init(); last: the latest
\* call; thrown: it threw; returned: the ids add* has returned so far;
\* disposed: dispose() has been called.
InitP ==
    envP = [pending |-> 0, last |-> "none", thrown |-> FALSE, returned |-> {},
            disposed |-> FALSE]

BodyIds == 0 .. (MaxBodies - 1)

Positions == {0 - LaunchX, LaunchX}

Velocities == {0 - LaunchSpeed, LaunchSpeed}

\* The id an add* call that went from pe to h.pe has returned, if any.
Returned(pe, h) == IF h.thrown THEN {} ELSE pe.nextBodyId .. (h.pe.nextBodyId - 1)

StoreP(h, call) ==
    /\ physicsEngine' = h.pe
    /\ threeC' = h.three
    /\ envP' = [envP EXCEPT !.last = call,
                            !.thrown = h.thrown,
                            !.returned = @ \cup Returned(physicsEngine, h),
                            !.disposed = @ \/ call = "dispose"]

\* init(), up to its await.
PhysicsInit ==
    /\ physicsEngine.initialized \/ envP.pending < MaxInits
    /\ envP' = [envP EXCEPT !.last = "init", !.thrown = FALSE,
                            !.pending = IF physicsEngine.initialized THEN @ ELSE @ + 1]
    /\ UNCHANGED <<physicsEngine, threeC, othersP>>

\* RAPIER.init() resolves for one of the pending calls.
PhysicsInitResolves ==
    /\ envP.pending > 0
    /\ physicsEngine' = PhysicsEngine_initResolved(HeapC).pe
    /\ envP' = [envP EXCEPT !.last = "initResolved", !.thrown = FALSE,
                            !.pending = @ - 1]
    /\ UNCHANGED <<threeC, othersP>>

\* RAPIER.init() rejects: init logs and rethrows.
PhysicsInitRejects ==
    /\ envP.pending > 0
    /\ envP' = [envP EXCEPT !.last = "initRejected", !.thrown = TRUE,
                            !.pending = @ - 1]
    /\ UNCHANGED <<physicsEngine, threeC, othersP>>

\* The caller makes a mesh and calls addStaticBox with it.
AddStaticBox ==
    /\ physicsEngine.nextBodyId < MaxBodies
    /\ threeC.nextObject < MaxMeshes
    /\ \E position \in Positions :
          LET mesh == NewMesh(HeapC)
          IN  StoreP(PhysicsEngine_addStaticBox(AddToScene(HeapC, mesh, position),
                                                mesh, position),
                     "addStaticBox")
    /\ UNCHANGED othersP

AddDynamicSphere ==
    /\ physicsEngine.nextBodyId < MaxBodies
    /\ threeC.nextObject < MaxMeshes
    /\ \E position \in Positions :
          LET mesh == NewMesh(HeapC)
          IN  StoreP(PhysicsEngine_addDynamicSphere(AddToScene(HeapC, mesh, position),
                                                    mesh, position),
                     "addDynamicSphere")
    /\ UNCHANGED othersP

SetVelocity ==
    /\ \E bodyId \in BodyIds, velocity \in Velocities :
          StoreP(PhysicsEngine_setVelocity(HeapC, bodyId, velocity), "setVelocity")
    /\ UNCHANGED othersP

Step ==
    /\ StoreP(PhysicsEngine_step(HeapC), "step")
    /\ UNCHANGED othersP

RemoveBody ==
    /\ \E bodyId \in BodyIds :
          StoreP(PhysicsEngine_removeBody(HeapC, bodyId), "removeBody")
    /\ UNCHANGED othersP

ClearAllBodies ==
    /\ StoreP(PhysicsEngine_clearAllBodies(HeapC), "clearAllBodies")
    /\ UNCHANGED othersP

DisposeP ==
    /\ StoreP(PhysicsEngine_dispose(HeapC), "dispose")
    /\ UNCHANGED othersP

NextP ==
    \/ PhysicsInit
    \/ PhysicsInitResolves
    \/ PhysicsInitRejects
    \/ AddStaticBox
    \/ AddDynamicSphere
    \/ SetVelocity
    \/ Step
    \/ RemoveBody
    \/ ClearAllBodies
    \/ DisposeP

----------------------------------------------------------------------------
(* ThreeSceneE (Blasteroids): program constants.                           *)

\* createExplosion: 15 particles; opacity = Math.max(0, 1 - explosionTimer / 30)
ExplosionParticleCount == 15
ExplosionFrames == 30

\* asteroidCount = 5 + this.level * 2, of size 3
AsteroidCountBase == 5
AsteroidCountPerLevel == 2
LargeAsteroid == 3

BULLET_LIFE == 60
MaxBulletsInFlight == 4

InitialLives == 3
maxShields == 3

\* The key codes the model presses, as keys[] holds them (lower case).
KeyCodes == {"space"}

----------------------------------------------------------------------------
(* ThreeSceneE.  The operators take and return a heap h = [e, three, x,     *)
(* thrown]: the scene's fields, the scene graph, what the browser holds     *)
(* (promises, scheduled callbacks), and whether an exception is             *)
(* propagating.                                                             *)

\* The objects the scene makes once, by name; asteroids, bullets and
\* particles are numbered from FirstObject on as they are made.
Stars == 0
TitleMesh == 1
SubtitleMesh == 2
TitleGroup == 3
Ship == 4
FirstObject == 5

\* new THREE.Mesh / THREE.Group: count fresh objects, the first is returned.
NewObjects(h, count) == [h EXCEPT !.three.nextObject = @ + count]

FirstNew(h) == h.three.nextObject

SceneAdd(h, objects) == [h EXCEPT !.three.scene = @ \cup objects]

\* Object3D.remove: removes the objects that are children of the scene.
SceneRemove(h, objects) == [h EXCEPT !.three.scene = @ \ objects]

\* The "remove existing title elements" block of startGame, createTitleScreen
\* and createFallbackTitleScreen.
RemoveTitleElements(h) ==
    IF h.e.titleElements = <<>> THEN h
    ELSE [SceneRemove(h, Range(h.e.titleElements)) EXCEPT !.e.titleElements = <<>>]

\* Two text meshes, each added to the scene.
createTitleScreen(h) ==
    [SceneAdd(RemoveTitleElements(h), {TitleMesh, SubtitleMesh})
        EXCEPT !.e.titleElements = <<TitleMesh, SubtitleMesh>>,
               !.e.showingTitle = TRUE]

\* A group of two box meshes: the group is added to the scene, the meshes
\* are kept in titleElements.
createFallbackTitleScreen(h) ==
    [SceneAdd(RemoveTitleElements(h), {TitleGroup})
        EXCEPT !.e.titleElements = <<TitleMesh, SubtitleMesh>>,
               !.e.showingTitle = TRUE]

createAsteroid(h, size) ==
    IF ~h.e.asteroidModel THEN h
    ELSE LET mesh == FirstNew(h)
         IN  [SceneAdd(NewObjects(h, 1), {mesh})
                 EXCEPT !.e.asteroids = Append(@, [mesh |-> mesh, size |-> size])]

RECURSIVE CreateAsteroidsLoop(_, _)
CreateAsteroidsLoop(h, count) ==
    IF count = 0 THEN h
    ELSE CreateAsteroidsLoop(createAsteroid(h, LargeAsteroid), count - 1)

createAsteroids(h) ==
    CreateAsteroidsLoop(h, AsteroidCountBase + h.e.level * AsteroidCountPerLevel)

\* loadShip after the model has loaded, and createFallbackShip: the ship
\* group is made and added to the scene.
CreateShip(h) == [SceneAdd(h, {Ship}) EXCEPT !.e.ship = Ship]

\* The end of loadShip, on both paths: the ship, then the asteroids.
loadShipSettled(h) == createAsteroids(CreateShip(h))

\* startGame, up to the first await of loadShip.
startGame(h) ==
    [RemoveTitleElements([h EXCEPT !.e.gameState = "PLAYING"])
        EXCEPT !.e.showingTitle = FALSE,
               !.x.shipLoad = "pending"]

\* The keydown listener of setupControls.
OnKeyDown(h, code) ==
    LET h1 == [h EXCEPT !.e.keys = @ \cup {code}]
    IN  IF h1.e.gameState = "TITLE_SCREEN" /\ code = "space" THEN startGame(h1) ELSE h1

\* material.opacity of an explosion's particles, in thirtieths.
ExplosionOpacity(explosionTimer) == Max(0, ExplosionFrames - explosionTimer)

\* particles.forEach((particle, index) => ...) of animateExplosion, from
\* index on: a faded particle is removed from the scene and spliced out of
\* the array the loop is walking.
RECURSIVE ForEachParticle(_, _, _, _)
ForEachParticle(particles, scene, index, opacity) ==
    IF index > Len(particles) THEN [particles |-> particles, scene |-> scene]
    ELSE IF opacity <= 0
         THEN ForEachParticle(SubSeq(particles, 1, index - 1)
                                  \o SubSeq(particles, index + 1, Len(particles)),
                              scene \ {particles[index]}, index + 1, opacity)
         ELSE ForEachParticle(particles, scene, index + 1, opacity)

\* One call of the closure animateExplosion of the k-th explosion.
animateExplosion(h, k) ==
    LET explosionTimer == h.x.explosions[k].explosionTimer + 1
        after == ForEachParticle(h.x.explosions[k].particles, h.three.scene, 1,
                                 ExplosionOpacity(explosionTimer))
    IN  [h EXCEPT !.three.scene = after.scene,
                  !.x.explosions[k].particles = after.particles,
                  !.x.explosions[k].explosionTimer = explosionTimer,
                  !.x.explosions[k].scheduled =
                      Len(after.particles) > 0 /\ explosionTimer < ExplosionFrames]

\* made: the particles the explosion was created with.
createExplosion(h) ==
    LET first == FirstNew(h)
        made == first .. (first + ExplosionParticleCount - 1)
        h1 == SceneAdd(NewObjects(h, ExplosionParticleCount), made)
        h2 == [h1 EXCEPT !.x.explosions =
                  Append(@, [made |-> made,
                             particles |-> [i \in 1 .. ExplosionParticleCount |->
                                               first + i - 1],
                             explosionTimer |-> 0,
                             scheduled |-> FALSE])]
    IN  animateExplosion(h2, Len(h2.x.explosions))

respawnPlayer(h) == [h EXCEPT !.e.shields = maxShields]

gameOver(h) ==
    LET h1 == SceneRemove(h, {b.mesh : b \in Range(h.e.bullets)}
                             \cup {a.mesh : a \in Range(h.e.asteroids)})
    IN  createAsteroids(respawnPlayer(
            [h1 EXCEPT !.e.score = 0, !.e.lives = InitialLives, !.e.level = 1,
                       !.e.bullets = <<>>, !.e.asteroids = <<>>]))

\* playerHit that ends the game only below zero lives.
playerHit_BelowZero(h) ==
    IF h.e.shields > 0 THEN [h EXCEPT !.e.shields = @ - 1]
    ELSE LET h1 == [h EXCEPT !.e.lives = @ - 1]
         IN  IF h1.e.lives < 0 THEN gameOver(h1) ELSE respawnPlayer(h1)

playerHit(h) ==
    IF h.e.shields > 0 THEN [h EXCEPT !.e.shields = @ - 1]
    ELSE LET h1 == [h EXCEPT !.e.lives = @ - 1]
         IN  IF h1.e.lives <= 0 THEN gameOver(h1) ELSE respawnPlayer(h1)

nextLevel(h) == createAsteroids([h EXCEPT !.e.level = @ + 1])

\* cooled: currentTime - lastShotTime > SHOT_COOLDOWN
shoot(h, isSuper, cooled) ==
    IF Len(h.e.bullets) < MaxBulletsInFlight /\ cooled
    THEN LET mesh == FirstNew(h)
         IN  [SceneAdd(NewObjects(h, 1), {mesh})
                 EXCEPT !.e.bullets =
                            Append(@, [mesh |-> mesh,
                                       life |-> IF isSuper THEN BULLET_LIFE * 2
                                                ELSE BULLET_LIFE,
                                       isSuper |-> isSuper]),
                        !.x.shotsFired = @ + 1]
    ELSE h

\* The charging system of updateShip (the ship's motion is not modelled).
\* in.isSuper: chargeTime >= maxChargeTime.
updateShip(h, in) ==
    IF h.e.ship = Null THEN h
    ELSE IF "space" \in h.e.keys THEN [h EXCEPT !.e.isCharging = TRUE]
    ELSE IF h.e.isCharging
         THEN [shoot(h, in.isSuper, in.cooled) EXCEPT !.e.isCharging = FALSE]
         ELSE h

\* A keyup listener that releases the shot itself.
OnKeyUp_Shoots(h, code) ==
    LET h1 == [h EXCEPT !.e.keys = @ \ {code}]
    IN  IF code = "space" /\ h1.e.gameState = "PLAYING" /\ h1.e.ship # Null
        THEN shoot(h1, FALSE, TRUE) ELSE h1

\* The keyup listener of setupControls.
OnKeyUp(h, code) == [h EXCEPT !.e.keys = @ \ {code}]

updateBullets(h) ==
    LET aged == [i \in DOMAIN h.e.bullets |-> [h.e.bullets[i] EXCEPT !.life = @ - 1]]
    IN  [SceneRemove(h, {b.mesh : b \in {c \in Range(aged) : c.life <= 0}})
            EXCEPT !.e.bullets = SelectSeq(aged, LAMBDA b : b.life > 0)]

Splice(seq, index) == SubSeq(seq, 1, index - 1) \o SubSeq(seq, index + 1, Len(seq))

\* createAsteroidAt and the push of destroyAsteroid.
AddFragment(h, size) ==
    LET mesh == FirstNew(h)
    IN  [SceneAdd(NewObjects(h, 1), {mesh})
            EXCEPT !.e.asteroids = Append(@, [mesh |-> mesh, size |-> size])]

\* destroyAsteroid that splits the smallest asteroids too.
destroyAsteroid_AlwaysSplits(h, index) ==
    IF index \notin DOMAIN h.e.asteroids THEN h
    ELSE LET asteroid == h.e.asteroids[index]
             h1 == SceneRemove(h, {asteroid.mesh})
             h2 == AddFragment(AddFragment(h1, asteroid.size - 1), asteroid.size - 1)
         IN  [h2 EXCEPT !.e.asteroids = Splice(@, index)]

destroyAsteroid(h, index) ==
    IF index \notin DOMAIN h.e.asteroids THEN h
    ELSE LET asteroid == h.e.asteroids[index]
             h1 == SceneRemove(h, {asteroid.mesh})
             h2 == IF asteroid.size > 1
                   THEN AddFragment(AddFragment(h1, asteroid.size - 1), asteroid.size - 1)
                   ELSE h1
         IN  [h2 EXCEPT !.e.asteroids = Splice(@, index)]

\* Bullet b is within reach of asteroid a.
BulletHit(h, b, a) ==
    LET bullet == h.e.bullets[b]
        asteroid == h.e.asteroids[a]
        h1 == [SceneRemove(createExplosion(h), {bullet.mesh})
                  EXCEPT !.e.bullets = Splice(@, b)]
    IN  IF bullet.isSuper
        THEN [SceneRemove(h1, {asteroid.mesh})
                 EXCEPT !.e.asteroids = Splice(@, a),
                        !.e.score = @ + asteroid.size * 200]
        ELSE [destroyAsteroid(h1, a) EXCEPT !.e.score = @ + asteroid.size * 100]

\* The bullet loop of checkCollisions, from bullet b down.  targets[b]: the
\* asteroid found within reach of bullet b (0: none).
RECURSIVE BulletLoop(_, _, _)
BulletLoop(h, b, targets) ==
    IF b = 0 THEN h
    ELSE IF b \in DOMAIN targets /\ targets[b] \in DOMAIN h.e.asteroids
         THEN BulletLoop(BulletHit(h, b, targets[b]), b - 1, targets)
         ELSE BulletLoop(h, b - 1, targets)

\* The asteroids.forEach of checkCollisions, for the asteroids that touch
\* the ship.
RECURSIVE ShipHits(_, _)
ShipHits(h, count) ==
    IF count = 0 THEN h ELSE ShipHits(playerHit(createExplosion(h)), count - 1)

\* in.shipHits: how many asteroids touch the ship.  Reading this.ship.position
\* throws while the ship is undefined.
checkCollisions(h, in) ==
    LET h1 == BulletLoop(h, Len(h.e.bullets), in.targets)
    IN  IF h1.e.asteroids # <<>> /\ h1.e.ship = Null THEN [h1 EXCEPT !.thrown = TRUE]
        ELSE LET h2 == ShipHits(h1, Min(in.shipHits, Len(h1.e.asteroids)))
             IN  IF h2.e.asteroids = <<>> THEN nextLevel(h2) ELSE h2

ThreeSceneE_animate(h, in) ==
    LET h1 == [h EXCEPT !.e.animationId = 1]
    IN  IF h1.e.gameState = "PLAYING"
        THEN checkCollisions(updateBullets(updateShip(h1, in)), in)
        ELSE h1

\* window.addEventListener / removeEventListener: a listener is an event
\* type and a function.  The functions are numbered in the order in which the
\* scene creates them: setupControls creates two, dispose two new ones.
AddEventListener(listeners, type, fn) == listeners \cup {[type |-> type, fn |-> fn]}

RemoveEventListener(listeners, type, fn) == listeners \ {[type |-> type, fn |-> fn]}

setupControls(listeners) ==
    AddEventListener(AddEventListener(listeners, "keydown", 1), "keyup", 2)

ThreeSceneE_dispose(h) ==
    [h EXCEPT !.e.animationId = Null,
              !.x.listeners = RemoveEventListener(
                                  RemoveEventListener(@, "keydown", 3), "keyup", 4)]

----------------------------------------------------------------------------
(* ThreeSceneE: the state after construction, and the callbacks.           *)

\* The constructor has added the stars to the scene, started
\* loadFont and loadAsteroidModel, and registered the key listeners.
InitE ==
    /\ sceneE = [gameState |-> "TITLE_SCREEN", titleElements |-> <<>>,
                 showingTitle |-> FALSE, keys |-> {}, ship |-> Null,
                 asteroidModel |-> FALSE, font |-> FALSE,
                 asteroids |-> <<>>, bullets |-> <<>>,
                 score |-> 0, lives |-> InitialLives, level |-> 1,
                 shields |-> maxShields, isCharging |-> FALSE,
                 animationId |-> Null]
    /\ threeE = [scene |-> {Stars}, nextObject |-> FirstObject]
    \* fontLoad, asteroidLoad, shipLoad: the promises of the loaders;
    \* explosions: the closures of createExplosion; shotsFired: the bullets
    \* made so far; uncaught: an exception left a callback; animating: the
    \* owner has called animate(); disposed: dispose() has returned.
    /\ envE = [fontLoad |-> "pending", asteroidLoad |-> "pending",
               shipLoad |-> "none", listeners |-> setupControls({}),
               explosions |-> <<>>, shotsFired |-> 0, uncaught |-> FALSE,
               animating |-> FALSE, disposed |-> FALSE]

HeapE == [e |-> sceneE, three |-> threeE, x |-> envE, thrown |-> FALSE]

\* The caps of the model on what a callback may bring about.
WithinBoundsE(h) ==
    /\ h.e.level <= MaxLevel
    /\ h.x.shotsFired <= MaxShots
    /\ Len(h.x.explosions) <= MaxExplosions
    /\ Len(h.e.bullets) + Cardinality({k \in DOMAIN h.x.explosions :
                                          h.x.explosions[k].scheduled}) <= MaxInFlight

StoreE(h) ==
    /\ sceneE' = h.e
    /\ threeE' = h.three
    /\ envE' = [h.x EXCEPT !.uncaught = @ \/ h.thrown]
    /\ UNCHANGED othersE

Listening(type) == \E l \in envE.listeners : l.type = type

FontLoadResolves ==
    /\ envE.fontLoad = "pending"
    /\ StoreE(createTitleScreen([HeapE EXCEPT !.e.font = TRUE,
                                              !.x.fontLoad = "fulfilled"]))

FontLoadRejects ==
    /\ envE.fontLoad = "pending"
    /\ StoreE(createFallbackTitleScreen([HeapE EXCEPT !.x.fontLoad = "rejected"]))

AsteroidModelLoadResolves ==
    /\ envE.asteroidLoad = "pending"
    /\ StoreE([HeapE EXCEPT !.e.asteroidModel = TRUE, !.x.asteroidLoad = "fulfilled"])

AsteroidModelLoadRejects ==
    /\ envE.asteroidLoad = "pending"
    /\ StoreE([HeapE EXCEPT !.x.asteroidLoad = "rejected"])

ShipLoadResolves ==
    /\ envE.shipLoad = "pending"
    /\ StoreE(loadShipSettled([HeapE EXCEPT !.x.shipLoad = "fulfilled"]))

ShipLoadRejects ==
    /\ envE.shipLoad = "pending"
    /\ StoreE(loadShipSettled([HeapE EXCEPT !.x.shipLoad = "rejected"]))

KeyDownE ==
    /\ Listening("keydown")
    /\ \E code \in KeyCodes : StoreE(OnKeyDown(HeapE, code))

KeyUpE ==
    /\ Listening("keyup")
    /\ \E code \in KeyCodes : StoreE(OnKeyUp(HeapE, code))

\* What a frame can find: whether the shot has cooled down and is a super
\* shot, which asteroid each bullet reaches (one asteroid stands for those of
\* its size), how many asteroids touch the ship.
TargetChoices ==
    {0} \cup {CHOOSE a \in DOMAIN sceneE.asteroids :
                  /\ sceneE.asteroids[a].size = size
                  /\ \A b \in DOMAIN sceneE.asteroids :
                        sceneE.asteroids[b].size = size => b <= a
              : size \in {x.size : x \in Range(sceneE.asteroids)}}

ShotDue ==
    /\ sceneE.ship # Null
    /\ "space" \notin sceneE.keys
    /\ sceneE.isCharging

FrameInputsE ==
    IF sceneE.gameState # "PLAYING" \/ sceneE.animationId = Null
    THEN {[cooled |-> TRUE, isSuper |-> FALSE, targets |-> <<>>, shipHits |-> 0]}
    ELSE {[cooled |-> cooled, isSuper |-> isSuper, targets |-> targets,
           shipHits |-> shipHits] :
             cooled \in (IF ShotDue THEN BOOLEAN ELSE {TRUE}),
             isSuper \in (IF ShotDue THEN BOOLEAN ELSE {FALSE}),
             targets \in [1 .. (Len(sceneE.bullets) + (IF ShotDue THEN 1 ELSE 0))
                             -> TargetChoices],
             shipHits \in 0 .. (IF sceneE.ship # Null /\ sceneE.asteroids # <<>>
                                THEN MaxExplosions - Len(envE.explosions)
                                ELSE 0)}

\* The owner of the scene calls animate() once, after construction.
StartAnimationE ==
    /\ ~envE.animating
    /\ ~envE.disposed
    /\ \E in \in FrameInputsE :
          StoreE([ThreeSceneE_animate(HeapE, in) EXCEPT !.x.animating = TRUE])

\* The explosions whose closure requestAnimationFrame has been given.
Scheduled(explosions) == {k \in DOMAIN explosions : explosions[k].scheduled}

RECURSIVE RunExplosions(_, _, _)
RunExplosions(h, callbacks, k) ==
    IF k > Len(h.x.explosions) THEN h
    ELSE RunExplosions(IF k \in callbacks THEN animateExplosion(h, k) ELSE h,
                       callbacks, k + 1)

\* A display frame: the browser runs the callbacks requestAnimationFrame was
\* given since the last frame, in the order in which it was given them:
\* animate, if it has not been cancelled, then the explosions' closures.
DisplayFrame(h, in) ==
    LET h1 == IF h.e.animationId # Null THEN ThreeSceneE_animate(h, in) ELSE h
        h2 == RunExplosions([h1 EXCEPT !.thrown = FALSE], Scheduled(h.x.explosions), 1)
    IN  [h2 EXCEPT !.thrown = h1.thrown]

\* A frame in which no shot is released and nothing collides.
QuietFrame == [cooled |-> FALSE, isSuper |-> FALSE, targets |-> <<>>, shipHits |-> 0]

\* Up to count quiet frames; the run ends before a frame that would throw
\* or begin a level.
RECURSIVE QuietFrames(_, _)
QuietFrames(h, count) ==
    IF count = 0 THEN h
    ELSE LET next == DisplayFrame(h, QuietFrame)
         IN  IF next.thrown \/ next.e.level # h.e.level THEN h
             ELSE QuietFrames(next, count - 1)

\* A run of display frames: one frame that finds what FrameInputsE draws,
\* then quiet frames.
DisplayFrameE ==
    /\ sceneE.animationId # Null \/ Scheduled(envE.explosions) # {}
    /\ \E in \in FrameInputsE :
          LET h1 == DisplayFrame(HeapE, in)
              h2 == QuietFrames([h1 EXCEPT !.thrown = FALSE], FramesPerStep - 1)
          IN  /\ WithinBoundsE(h2)
              /\ StoreE([h2 EXCEPT !.thrown = h1.thrown])

\* The owner of the scene calls dispose().
DisposeE ==
    /\ ~envE.disposed
    /\ StoreE(ThreeSceneE_dispose([HeapE EXCEPT !.x.disposed = TRUE]))

NextE ==
    \/ FontLoadResolves
    \/ FontLoadRejects
    \/ AsteroidModelLoadResolves
    \/ AsteroidModelLoadRejects
    \/ ShipLoadResolves
    \/ ShipLoadRejects
    \/ KeyDownE
    \/ KeyUpE
    \/ StartAnimationE
    \/ DisplayFrameE
    \/ DisposeE

\* How many asteroids touch the ship in a frame: one or MaxTouching; none
\* in the frames in which a shot is released or a bullet flies.
HitCounts ==
    IF sceneE.ship = Null \/ ShotDue \/ sceneE.bullets # <<>> THEN {0}
    ELSE {Min(1, Len(sceneE.asteroids)), Min(MaxTouching, Len(sceneE.asteroids))}

\* What a frame can find when asteroids touch the ship.
HitInputsE ==
    IF sceneE.gameState # "PLAYING" \/ sceneE.animationId = Null
    THEN {[cooled |-> TRUE, isSuper |-> FALSE, targets |-> <<>>, shipHits |-> 0]}
    ELSE {[cooled |-> cooled, isSuper |-> isSuper, targets |-> targets,
           shipHits |-> shipHits] :
             cooled \in (IF ShotDue THEN BOOLEAN ELSE {TRUE}),
             isSuper \in (IF ShotDue THEN BOOLEAN ELSE {FALSE}),
             targets \in [1 .. (Len(sceneE.bullets) + (IF ShotDue THEN 1 ELSE 0))
                             -> TargetChoices],
             shipHits \in HitCounts}

WithinHitsE(h) ==
    /\ h.e.level <= MaxLevel
    /\ h.x.shotsFired <= MaxShots
    /\ Len(h.x.explosions) <= MaxHits

\* A run of display frames, the first of which finds what HitInputsE draws.
HitFrameE ==
    /\ sceneE.animationId # Null
    /\ \E in \in HitInputsE :
          LET h1 == DisplayFrame(HeapE, in)
              h2 == QuietFrames([h1 EXCEPT !.thrown = FALSE], FramesPerStep - 1)
          IN  /\ WithinHitsE(h2)
              /\ StoreE([h2 EXCEPT !.thrown = h1.thrown])

\* The player is at the keys until the first explosion.
EarlyKeyDownE ==
    /\ envE.explosions = <<>>
    /\ KeyDownE

EarlyKeyUpE ==
    /\ envE.explosions = <<>>
    /\ KeyUpE

NextHits ==
    \/ AsteroidModelLoadResolves
    \/ ShipLoadResolves
    \/ EarlyKeyDownE
    \/ EarlyKeyUpE
    \/ StartAnimationE
    \/ HitFrameE

\* What a frame can find when no asteroid touches the ship: a bullet
\* reaches the last asteroid of the list or none.
ShotInputsE ==
    IF sceneE.gameState # "PLAYING" \/ sceneE.animationId = Null
    THEN {[cooled |-> TRUE, isSuper |-> FALSE, targets |-> <<>>, shipHits |-> 0]}
    ELSE {[cooled |-> TRUE, isSuper |-> isSuper, targets |-> targets,
           shipHits |-> 0] :
             isSuper \in (IF ShotDue THEN BOOLEAN ELSE {FALSE}),
             targets \in [1 .. (Len(sceneE.bullets) + (IF ShotDue THEN 1 ELSE 0))
                             -> {0, Len(sceneE.asteroids)}]}

WithinShotsE(h) ==
    /\ h.e.level <= MaxLevel
    /\ h.x.shotsFired <= MaxVolley
    /\ Len(h.x.explosions) <= MaxVolley
    /\ Len(h.e.bullets) <= MaxInFlight

\* A run of display frames, the first of which finds what ShotInputsE draws.
ShotFrameE ==
    /\ sceneE.animationId # Null
    /\ \E in \in ShotInputsE :
          LET h1 == DisplayFrame(HeapE, in)
              h2 == QuietFrames([h1 EXCEPT !.thrown = FALSE], FramesPerStep - 1)
          IN  /\ WithinShotsE(h2)
              /\ StoreE([h2 EXCEPT !.thrown = h1.thrown])

NextShots ==
    \/ AsteroidModelLoadResolves
    \/ ShipLoadResolves
    \/ KeyDownE
    \/ KeyUpE
    \/ StartAnimationE
    \/ ShotFrameE

----------------------------------------------------------------------------
(* ThreeSceneB: the product configurator, and the handler of its component *)
(* that loads a file.                                                      *)

\* The formats handleLoadModel and the switch of loadModel accept.
SupportedFormats == {"gltf", "glb", "fbx", "obj"}

\* The extensions of the files a caller passes: one supported, one not.
Extensions == {"glb", "txt"}

\* logger.error(..., source)
LogError(h, source) == [h EXCEPT !.x.errors = @ \cup {source}]

\* this.loadingBar?.updateProgress(progress)
UpdateProgressB(h, progress) ==
    IF h.b.loadingBar THEN [h EXCEPT !.b.progress = progress] ELSE h

\* LoadingBar.hide(): the element fades and is removed.
LoadingBar_hide(h) == [h EXCEPT !.b.loaderShown = FALSE]

\* new THREE.Group() holding what was loaded, or the fallback cube; the
\* meshes' material.
NewGroup(h, kind, material) ==
    [h EXCEPT !.three.groups = Append(@, [kind |-> kind, material |-> material]),
              !.b.currentModel = Len(h.three.groups) + 1]

\* threeManager.add(this.currentModel)
AddCurrentModel(h) == [h EXCEPT !.three.scene = @ \cup {h.b.currentModel}]

\* The catch block of loadModel, for its k-th call: it logs, hides the
\* loading bar it showed, and throws a new Error.
loadModel_catch(h, k) ==
    LET h1 == LogError(h, "loadModel")
        h2 == IF h1.x.calls[k].showLoadingBar /\ h1.b.loadingBar
              THEN LoadingBar_hide(h1) ELSE h1
    IN  [h2 EXCEPT !.x.calls[k].promise = "rejected", !.thrown = TRUE]

\* loadModel, up to its first await.  LoadingBar has no method show: with
\* showLoadingBar and a loading bar, this.loadingBar.show() is a TypeError
\* inside the try block.
loadModel(h, extension, showLoadingBar, caller) ==
    LET k == Len(h.x.calls) + 1
        h0 == [h EXCEPT !.x.calls =
                  Append(@, [extension |-> extension,
                             showLoadingBar |-> showLoadingBar,
                             caller |-> caller, loader |-> "none",
                             promise |-> "pending",
                             displayed |-> h.three.scene # {}])]
    IN  IF showLoadingBar /\ h0.b.loadingBar THEN loadModel_catch(h0, k)
        ELSE LET h1 == IF h0.b.currentModel # Null
                       THEN [h0 EXCEPT !.three.scene = @ \ {h0.b.currentModel}]
                       ELSE h0
             IN  IF extension \in SupportedFormats
                 THEN [h1 EXCEPT !.x.calls[k].loader = "pending"]
                 ELSE loadModel_catch(h1, k)

\* loadModel after loadAsync has resolved: the group is made, given the
\* 'metal' material (applyCurrentMaterialToModel) and added to the scene.
loadModel_loaded(h, k) ==
    [AddCurrentModel(NewGroup(h, "loaded", "metal"))
        EXCEPT !.x.calls[k].loader = "fulfilled",
               !.x.calls[k].promise = "fulfilled"]

\* loadModel after loadAsync has rejected.
loadModel_failed(h, k) ==
    loadModel_catch([h EXCEPT !.x.calls[k].loader = "rejected"], k)

\* The fallback of loadDefaultModel: a cube with the 'metal' material.
FallbackCube(h) == AddCurrentModel(NewGroup(h, "cube", "metal"))

\* A loadDefaultModel whose catch block only logs.
loadDefaultModel_NoFallback(h, k) ==
    LET h1 == IF h.x.calls[k].promise = "fulfilled" THEN UpdateProgressB(h, 70)
              ELSE UpdateProgressB(LogError(h, "loadDefaultModel"), 70)
    IN  [h1 EXCEPT !.x.loadDefaultModel = "fulfilled", !.thrown = FALSE]

\* A loadDefaultModel that logs the failure and throws it on.
loadDefaultModel_Rethrows(h, k) ==
    IF h.x.calls[k].promise = "fulfilled"
    THEN [UpdateProgressB(h, 70) EXCEPT !.x.loadDefaultModel = "fulfilled"]
    ELSE [LogError(h, "loadDefaultModel") EXCEPT !.x.loadDefaultModel = "rejected"]

\* loadDefaultModel after its call of loadModel (the k-th) has settled.
loadDefaultModel(h, k) ==
    LET h1 == IF h.x.calls[k].promise = "fulfilled" THEN UpdateProgressB(h, 70)
              ELSE UpdateProgressB(FallbackCube(LogError(h, "loadDefaultModel")), 70)
    IN  [h1 EXCEPT !.x.loadDefaultModel = "fulfilled", !.thrown = FALSE]

\* The catch block of handleLoadModel: it logs and alerts.
handleLoadModel_catch(h) ==
    [LogError(h, "handleLoadModel") EXCEPT !.x.alerted = TRUE, !.thrown = FALSE]

\* handleLoadModel of ThreeSceneBComponent, up to its first await.
handleLoadModel(h, extension, tooLarge) ==
    IF extension \notin SupportedFormats \/ tooLarge THEN handleLoadModel_catch(h)
    ELSE LET h1 == loadModel(h, extension, TRUE, "handleLoadModel")
         IN  IF h1.thrown THEN handleLoadModel_catch(h1) ELSE h1

\* What the caller of the k-th loadModel does once its promise has settled.
Settled(h, k) ==
    IF h.x.calls[k].caller = "loadDefaultModel" THEN loadDefaultModel(h, k)
    ELSE IF h.x.calls[k].caller = "handleLoadModel" /\ h.thrown
         THEN handleLoadModel_catch(h)
         ELSE [h EXCEPT !.thrown = FALSE]

\* completeLoading: the progress, and the timer that hides the loader.
completeLoadingB(h) == [UpdateProgressB(h, 100) EXCEPT !.x.hideTimer = TRUE]

hideLoader(h) == IF h.b.loadingBar THEN LoadingBar_hide(h) ELSE h

ThreeSceneB_animate(h) == [h EXCEPT !.b.animationId = 1]

ThreeSceneB_dispose(h) ==
    [h EXCEPT !.b.animationId = Null, !.b.controls = FALSE,
              !.b.loadingBar = FALSE,
              !.b.loaderShown = IF h.b.loadingBar THEN FALSE ELSE @]

\* The constructor: createLoader .. setupMaterials, loadEnvironment (not
\* modelled), loadDefaultModel up to the await inside loadModel,
\* setupCamera, setupControls, completeLoading.
ConstructedB ==
    LET h0 == [b |-> [currentModel |-> Null, animationId |-> Null,
                      loadingBar |-> TRUE, controls |-> TRUE,
                      progress |-> 50, loaderShown |-> TRUE],
               three |-> [scene |-> {}, groups |-> <<>>],
               \* calls: the calls of loadModel, with the promise of the
               \* loader, the promise loadModel returned and whether a model
               \* was displayed when it was called; loadDefaultModel:
               \* the promise it returned; errors: the sources that logged an
               \* error; alerted: handleLoadModel has shown an alert.
               x |-> [calls |-> <<>>, loadDefaultModel |-> "pending",
                      errors |-> {}, alerted |-> FALSE, hideTimer |-> FALSE,
                      animating |-> FALSE, disposed |-> FALSE],
               thrown |-> FALSE]
        h1 == loadModel(UpdateProgressB(h0, 60), "fbx", FALSE, "loadDefaultModel")
    IN  completeLoadingB(h1)

InitB ==
    /\ sceneB = ConstructedB.b
    /\ threeB = ConstructedB.three
    /\ envB = ConstructedB.x

HeapB == [b |-> sceneB, three |-> threeB, x |-> envB, thrown |-> FALSE]

StoreB(h) ==
    /\ sceneB' = h.b
    /\ threeB' = h.three
    /\ envB' = h.x
    /\ UNCHANGED othersB

\* The loader of a call of loadModel resolves.
LoaderResolves ==
    \E k \in DOMAIN envB.calls :
        /\ envB.calls[k].loader = "pending"
        /\ StoreB(Settled(loadModel_loaded(HeapB, k), k))

\* The loader of a call of loadModel rejects.
LoaderRejects ==
    \E k \in DOMAIN envB.calls :
        /\ envB.calls[k].loader = "pending"
        /\ StoreB(Settled(loadModel_failed(HeapB, k), k))

\* The owner of the scene calls the public loadModel.
LoadModel ==
    /\ ~envB.disposed
    /\ Len(envB.calls) <= MaxLoadCalls
    /\ \E extension \in Extensions, showLoadingBar \in BOOLEAN :
          StoreB([loadModel(HeapB, extension, showLoadingBar, "owner")
                     EXCEPT !.thrown = FALSE])

\* The user picks a file in the component.
HandleLoadModel ==
    /\ ~envB.disposed
    /\ Len(envB.calls) <= MaxLoadCalls
    /\ \E extension \in Extensions, tooLarge \in BOOLEAN :
          StoreB(handleLoadModel(HeapB, extension, tooLarge))

\* The timer of completeLoading fires.
HideLoaderTimerB ==
    /\ envB.hideTimer
    /\ StoreB(hideLoader([HeapB EXCEPT !.x.hideTimer = FALSE]))

\* The component calls animate() once, after construction.
StartAnimationB ==
    /\ ~envB.animating
    /\ ~envB.disposed
    /\ StoreB([ThreeSceneB_animate(HeapB) EXCEPT !.x.animating = TRUE])

\* requestAnimationFrame calls animate.
AnimateB ==
    /\ sceneB.animationId # Null
    /\ StoreB(ThreeSceneB_animate(HeapB))

\* The component disposes of the scene.
DisposeB ==
    /\ ~envB.disposed
    /\ StoreB(ThreeSceneB_dispose([HeapB EXCEPT !.x.disposed = TRUE]))

NextB ==
    \/ LoaderResolves
    \/ LoaderRejects
    \/ LoadModel
    \/ HandleLoadModel
    \/ HideLoaderTimerB
    \/ StartAnimationB
    \/ AnimateB
    \/ DisposeB

----------------------------------------------------------------------------
(* ThreeSceneD: the lottery ball viewer, and LotteryAnalyzer's request.    *)

\* A string is the sequence of its characters.
DigitValue ==
    [c \in {"0", "1", "2", "3", "4", "5", "6", "7", "8", "9"} |->
        CASE c = "0" -> 0 [] c = "1" -> 1 [] c = "2" -> 2 [] c = "3" -> 3
          [] c = "4" -> 4 [] c = "5" -> 5 [] c = "6" -> 6 [] c = "7" -> 7
          [] c = "8" -> 8 [] c = "9" -> 9]

\* NaN, which no parsed number equals.
NaN == 0 - 2

\* str.split(separator): the pieces between the separators, of which there
\* is always one.
RECURSIVE SplitFrom(_, _, _, _)
SplitFrom(str, separator, index, piece) ==
    IF index > Len(str) THEN <<piece>>
    ELSE IF str[index] = separator
         THEN <<piece>> \o SplitFrom(str, separator, index + 1, <<>>)
         ELSE SplitFrom(str, separator, index + 1, Append(piece, str[index]))

Split(str, separator) == SplitFrom(str, separator, 1, <<>>)

\* parseInt(str): the number its leading digits spell, NaN without one.
RECURSIVE ParseDigits(_, _, _)
ParseDigits(str, index, value) ==
    IF index > Len(str) \/ str[index] \notin DOMAIN DigitValue THEN value
    ELSE ParseDigits(str, index + 1, 10 * value + DigitValue[str[index]])

ParseInt(str) ==
    IF str = <<>> \/ str[1] \notin DOMAIN DigitValue THEN NaN
    ELSE ParseDigits(str, 1, 0)

\* latest.winning_numbers.split(' ').map(num => parseInt(num))
ParseWinningNumbers(str) ==
    LET pieces == Split(str, " ")
    IN  [i \in DOMAIN pieces |-> ParseInt(pieces[i])]

\* The default and demo numbers of the scene.
DemoNumbers == <<13, 47, 52, 64, 67, 25>>

\* What the API can answer for winning_numbers: six numbers, five, seven,
\* five and a trailing space, none.
SixNumbers == <<"8", " ", "1", "9", " ", "2", " ", "4", "0", " ", "6", " ", "7">>

WinningNumbers ==
    <<SixNumbers,
      SubSeq(SixNumbers, 1, Len(SixNumbers) - 2),
      SixNumbers \o <<" ", "3">>,
      SubSeq(SixNumbers, 1, Len(SixNumbers) - 1),
      <<>>>>

\* The arrays response.json() can resolve to: empty, one draw with each of
\* WinningNumbers, one object without winning_numbers.
LotteryAnswers ==
    <<<<>>>>
    \o [i \in DOMAIN WinningNumbers |->
           <<[draw_date |-> "api", winning_numbers |-> WinningNumbers[i],
              multiplier |-> "3"]>>]
    \o << <<[draw_date |-> "api", multiplier |-> "3"]>> >>

\* The numbers of draws response.json() can resolve to for the analyzer.
HistoricalAnswers == {0, 2}

LogErrorD(h, source) == [h EXCEPT !.x.errors = @ \cup {source}]

\* this.loadingBar?.updateProgress(progress)
UpdateProgressD(h, progress) ==
    IF h.d.loadingBar THEN [h EXCEPT !.d.progress = progress] ELSE h

\* initialize, from the end of loadEnvironment to the await of
\* fetchLotteryData, and fetchLotteryData up to its await of fetch.
initialize(h) ==
    [h EXCEPT !.d.lotteryBalls = 6,
              !.d.currentNumbers = DemoNumbers,
              !.x.stage = "lotteryFetch",
              !.x.fetchLotteryData = "pending",
              !.x.requests.lottery = @ + 1]

\* The try block of fetchLotteryData once response.json() has resolved;
\* thrown: latest.winning_numbers is undefined.
fetchLotteryData_try(h, data) ==
    IF Len(data) > 0
    THEN LET latest == data[1]
             h1 == [h EXCEPT !.d.drawDate = latest.draw_date,
                             !.d.multiplier = latest.multiplier]
         IN  IF "winning_numbers" \notin DOMAIN latest
             THEN [h1 EXCEPT !.thrown = TRUE]
             ELSE LET numbers == ParseWinningNumbers(latest.winning_numbers)
                  IN  IF Len(numbers) >= 6
                      THEN [h1 EXCEPT !.d.currentNumbers = numbers]
                      ELSE h1
    ELSE h

\* A catch block of fetchLotteryData that only logs.
fetchLotteryData_catch_LogsOnly(h) ==
    [LogErrorD(h, "fetchLotteryData") EXCEPT !.thrown = FALSE]

\* The catch block of fetchLotteryData.
fetchLotteryData_catch(h) ==
    [LogErrorD(h, "fetchLotteryData")
        EXCEPT !.d.currentNumbers = DemoNumbers,
               !.d.drawDate = "now",
               !.d.multiplier = "2",
               !.thrown = FALSE]

\* The end of fetchLotteryData, and initialize up to the await of fetch in
\* LotteryAnalyzer.fetchHistoricalData.
fetchLotteryData_end(h) ==
    [UpdateProgressD(h, 80)
        EXCEPT !.x.fetchLotteryData = "fulfilled",
               !.x.stage = "historicalFetch",
               !.x.fetchHistoricalData = "pending",
               !.x.requests.historical = @ + 1]

\* fetchLotteryData after a failure: fetch rejected, the status was not ok,
\* response.json() rejected.
fetchLotteryData_failed(h) == fetchLotteryData_end(fetchLotteryData_catch(h))

\* fetchLotteryData after response.json() has resolved.
fetchLotteryData_json(h, data) ==
    LET h1 == fetchLotteryData_try(h, data)
    IN  fetchLotteryData_end(IF h1.thrown THEN fetchLotteryData_catch(h1) ELSE h1)

\* completeLoading
completeLoadingD(h) ==
    [UpdateProgressD(h, 100) EXCEPT !.d.isLoaded = TRUE, !.x.hideTimer = TRUE]

\* The end of LotteryAnalyzer.fetchHistoricalData, which returns count
\* draws, then analyzeAndDisplayFrequencies and the end of initialize.
fetchHistoricalData_end(h, count) ==
    completeLoadingD(
        [h EXCEPT !.x.fetchHistoricalData = "fulfilled",
                  !.x.historicalData = count,
                  !.d.frequencyWheel = @ \/ count > 0,
                  !.x.stage = "done"])

\* The catch block of fetchHistoricalData: it logs and returns [].
fetchHistoricalData_failed(h) ==
    fetchHistoricalData_end(LogErrorD(h, "fetchHistoricalData"), 0)

ThreeSceneD_animate(h) == [h EXCEPT !.d.animationId = 1]

ThreeSceneD_dispose(h) == [h EXCEPT !.d.animationId = Null]

\* The constructor: createLoader, init, setupCamera, and initialize up to
\* the await inside loadEnvironment.
InitD ==
    /\ sceneD = [currentNumbers |-> <<0, 0, 0, 0, 0, 0>>, drawDate |-> "",
                 multiplier |-> "1", lotteryBalls |-> 0,
                 frequencyWheel |-> FALSE, isLoaded |-> FALSE,
                 animationId |-> Null, loadingBar |-> TRUE, progress |-> 20,
                 loaderShown |-> TRUE]
    \* stage: the await at which initialize stands; fetchLotteryData,
    \* fetchHistoricalData: the promises they returned; historicalData: the
    \* number of draws fetchHistoricalData returned; requests: the calls of
    \* fetch; errors: the sources that logged an error.
    /\ envD = [stage |-> "environment", fetchLotteryData |-> "none",
               fetchHistoricalData |-> "none", historicalData |-> Null,
               requests |-> [lottery |-> 0, historical |-> 0],
               errors |-> {}, hideTimer |-> FALSE,
               animating |-> FALSE, disposed |-> FALSE]

HeapD == [d |-> sceneD, x |-> envD, thrown |-> FALSE]

StoreD(h) ==
    /\ sceneD' = h.d
    /\ envD' = h.x
    /\ UNCHANGED othersD

EnvironmentLoadResolves ==
    /\ envD.stage = "environment"
    /\ StoreD(initialize(UpdateProgressD(HeapD, 35)))

EnvironmentLoadRejects ==
    /\ envD.stage = "environment"
    /\ StoreD(initialize(HeapD))

\* The API is unreachable: fetch rejects.
LotteryFetchRejects ==
    /\ envD.stage = "lotteryFetch"
    /\ StoreD(fetchLotteryData_failed(HeapD))

\* The API answers with a status that is not ok.
LotteryFetchNotOk ==
    /\ envD.stage = "lotteryFetch"
    /\ StoreD(fetchLotteryData_failed(HeapD))

LotteryFetchOk ==
    /\ envD.stage = "lotteryFetch"
    /\ StoreD([HeapD EXCEPT !.x.stage = "lotteryJson"])

LotteryJsonRejects ==
    /\ envD.stage = "lotteryJson"
    /\ StoreD(fetchLotteryData_failed(HeapD))

LotteryJsonResolves ==
    /\ envD.stage = "lotteryJson"
    /\ \E i \in DOMAIN LotteryAnswers :
          StoreD(fetchLotteryData_json(HeapD, LotteryAnswers[i]))

HistoricalFetchFails ==
    /\ envD.stage = "historicalFetch"
    /\ StoreD(fetchHistoricalData_failed(HeapD))

HistoricalFetchOk ==
    /\ envD.stage = "historicalFetch"
    /\ StoreD([HeapD EXCEPT !.x.stage = "historicalJson"])

HistoricalJsonRejects ==
    /\ envD.stage = "historicalJson"
    /\ StoreD(fetchHistoricalData_failed(HeapD))

HistoricalJsonResolves ==
    /\ envD.stage = "historicalJson"
    /\ \E count \in HistoricalAnswers : StoreD(fetchHistoricalData_end(HeapD, count))

\* The timer of completeLoading fires: hideLoader.
HideLoaderTimerD ==
    /\ envD.hideTimer
    /\ StoreD([HeapD EXCEPT !.x.hideTimer = FALSE,
                            !.d.loaderShown = IF sceneD.loadingBar THEN FALSE ELSE @])

StartAnimationD ==
    /\ ~envD.animating
    /\ ~envD.disposed
    /\ StoreD([ThreeSceneD_animate(HeapD) EXCEPT !.x.animating = TRUE])

AnimateD ==
    /\ sceneD.animationId # Null
    /\ StoreD(ThreeSceneD_animate(HeapD))

DisposeD ==
    /\ ~envD.disposed
    /\ StoreD(ThreeSceneD_dispose([HeapD EXCEPT !.x.disposed = TRUE]))

NextD ==
    \/ EnvironmentLoadResolves
    \/ EnvironmentLoadRejects
    \/ LotteryFetchRejects
    \/ LotteryFetchNotOk
    \/ LotteryFetchOk
    \/ LotteryJsonRejects
    \/ LotteryJsonResolves
    \/ HistoricalFetchFails
    \/ HistoricalFetchOk
    \/ HistoricalJsonRejects
    \/ HistoricalJsonResolves
    \/ HideLoaderTimerD
    \/ StartAnimationD
    \/ AnimateD
    \/ DisposeD

----------------------------------------------------------------------------
(* utils/logger.ts and loggerConfig.ts: the logger singleton.              *)
(*                                                                         *)
(* A message written to the console is a record of the parts formatMessage *)
(* puts together; console holds what the latest call wrote.                *)

LogLevel == [DEBUG |-> 0, INFO |-> 1, WARN |-> 2, ERROR |-> 3, NONE |-> 4]

LogLevels == {LogLevel[n] : n \in DOMAIN LogLevel}

\* LogLevel[level], the reverse mapping of the enum.
LevelName(level) == CHOOSE n \in DOMAIN LogLevel : LogLevel[n] = level

ConfigFields == {"enabled", "level", "showTimestamps", "showComponent"}

LoggerConfigs ==
    [enabled : BOOLEAN, level : LogLevels,
     showTimestamps : BOOLEAN, showComponent : BOOLEAN]

\* The initializer of Logger.config.
DefaultConfig ==
    [enabled |-> TRUE, level |-> LogLevel.DEBUG,
     showTimestamps |-> TRUE, showComponent |-> TRUE]

\* Partial<LoggerConfig>: the fields that are present, and their values.
PartialConfigs ==
    {[present |-> D,
      value |-> [f \in ConfigFields |-> IF f \in D THEN c[f] ELSE DefaultConfig[f]]] :
        D \in SUBSET ConfigFields, c \in LoggerConfigs}

\* The keys of LOGGING_CONFIG.COMPONENTS.
ComponentNames ==
    {"App", "MenuBar", "BlogViewer", "BlogModal", "HashnodeAPI",
     "LinkSpreadsheet", "GitHubAPI", "VideoViewer", "YouTubeAPI",
     "ModelViewer", "ContactForm", "CodeViewer", "PDFGrid"}

SourceComponents == [n \in ComponentNames |-> TRUE]

\* COMPONENTS with the entries of two components set either way.
EditedComponents ==
    {[SourceComponents EXCEPT !["ModelViewer"] = a, !["VideoViewer"] = b] :
        a, b \in BOOLEAN}

\* The component arguments of the calls: two with an entry, one without
\* ('Logger', which initializeLogger itself uses), and none.
NoComponent == ""

CallComponents == {"ModelViewer", "VideoViewer", "Logger", NoComponent}

LoggerMethods ==
    {"debug", "info", "log", "warn", "error",
     "group", "groupEnd", "table", "time", "timeEnd"}

configure(h, newConfig) ==
    [h EXCEPT !.config =
        [f \in ConfigFields |->
            IF f \in newConfig.present THEN newConfig.value[f] ELSE h.config[f]]]

setEnabled(h, enabled) == [h EXCEPT !.config.enabled = enabled]

setLevel(h, level) == [h EXCEPT !.config.level = level]

\* A shouldLog that wants the level to be above the configured one.
shouldLog_Above(h, level) == h.config.enabled /\ level > h.config.level

shouldLog(h, level) == h.config.enabled /\ level >= h.config.level

formatMessage(h, message, component, level) ==
    [timestamp |-> h.config.showTimestamps,
     component |-> IF h.config.showComponent /\ component # NoComponent
                   THEN component ELSE NoComponent,
     level     |-> IF level # Null THEN LevelName(level) ELSE "",
     message   |-> message]

\* An argument handed to the console as it is.
Unformatted(x) ==
    [timestamp |-> FALSE, component |-> NoComponent, level |-> "", message |-> x]

\* console.<method>(text)
Console(h, method, text) ==
    [h EXCEPT !.console = Append(@, [method |-> method, text |-> text])]

debug(h, message, component) ==
    IF shouldLog(h, LogLevel.DEBUG)
    THEN Console(h, "debug", formatMessage(h, message, component, LogLevel.DEBUG))
    ELSE h

info(h, message, component) ==
    IF shouldLog(h, LogLevel.INFO)
    THEN Console(h, "log", formatMessage(h, message, component, LogLevel.INFO))
    ELSE h

log(h, message, component) == info(h, message, component)

warn(h, message, component) ==
    IF shouldLog(h, LogLevel.WARN)
    THEN Console(h, "warn", formatMessage(h, message, component, LogLevel.WARN))
    ELSE h

error(h, message, component) ==
    IF shouldLog(h, LogLevel.ERROR)
    THEN Console(h, "error", formatMessage(h, message, component, LogLevel.ERROR))
    ELSE h

group(h, label, component) ==
    IF shouldLog(h, LogLevel.INFO)
    THEN Console(h, "group", formatMessage(h, label, component, Null))
    ELSE h

groupEnd(h) ==
    IF shouldLog(h, LogLevel.INFO)
    THEN Console(h, "groupEnd", Unformatted(""))
    ELSE h

table(h, data, component) ==
    IF shouldLog(h, LogLevel.INFO)
    THEN LET h1 == IF component # NoComponent
                   THEN info(h, "Table data from", NoComponent)
                   ELSE h
         IN  Console(h1, "table", Unformatted(data))
    ELSE h

time(h, label) ==
    IF shouldLog(h, LogLevel.DEBUG)
    THEN Console(h, "time", Unformatted(label))
    ELSE h

timeEnd(h, label) ==
    IF shouldLog(h, LogLevel.DEBUG)
    THEN Console(h, "timeEnd", Unformatted(label))
    ELSE h

disable(h) == setEnabled(h, FALSE)

enable(h) == setEnabled(h, TRUE)

quietMode(h) == setLevel(h, LogLevel.WARN)

verboseMode(h) == setLevel(h, LogLevel.DEBUG)

\* logger.<method>(message, component)
LoggerMethod(h, method, component) ==
    CASE method = "debug"    -> debug(h, "message", component)
      [] method = "info"     -> info(h, "message", component)
      [] method = "log"      -> log(h, "message", component)
      [] method = "warn"     -> warn(h, "message", component)
      [] method = "error"    -> error(h, "message", component)
      [] method = "group"    -> group(h, "label", component)
      [] method = "groupEnd" -> groupEnd(h)
      [] method = "table"    -> table(h, "data", component)
      [] method = "time"     -> time(h, "label")
      [] method = "timeEnd"  -> timeEnd(h, "label")

initializeLogger(h) ==
    LET h1 == configure(h,
                  [present |-> ConfigFields,
                   value |-> [enabled        |-> h.cfg.ENABLED,
                              level          |-> h.cfg.LEVEL,
                              showTimestamps |-> h.cfg.SHOW_TIMESTAMPS,
                              showComponent  |-> h.cfg.SHOW_COMPONENTS]])
    IN  IF h.cfg.ENABLED THEN info(h1, "Logger initialized", "Logger") ELSE h1

\* COMPONENTS[component]: undefined (here FALSE, as falsy) without an entry.
isComponentEnabled(h, component) ==
    component \in DOMAIN h.cfg.COMPONENTS /\ h.cfg.COMPONENTS[component]

\* getComponentLogger(component).<method>(message)
getComponentLogger(h, component, method) ==
    IF ~isComponentEnabled(h, component)
    THEN h
    ELSE LoggerMethod(h, method, component)

\* loggerConfig.ts as the source has it.
SourceLoggingConfig ==
    [ENABLED |-> TRUE, LEVEL |-> LogLevel.DEBUG,
     SHOW_TIMESTAMPS |-> TRUE, SHOW_COMPONENTS |-> TRUE,
     COMPONENTS |-> SourceComponents]

\* The modules are loaded: the singleton is constructed and
\* initializeLogger() has run.
InitLWith(components) ==
    LET h == initializeLogger([config  |-> DefaultConfig,
                               cfg     |-> [SourceLoggingConfig EXCEPT
                                               !.COMPONENTS = components],
                               console |-> <<>>])
    IN  /\ loggerConfig = h.config
        /\ LOGGING_CONFIG = h.cfg
        /\ console = h.console
        /\ envL = [method |-> "initializeLogger", component |-> "Logger",
                   via |-> "logger"]

InitL == InitLWith(SourceComponents)

\* The logger before a call: the console of the model is cleared, to hold
\* what the call writes.
HeapL == [config |-> loggerConfig, cfg |-> LOGGING_CONFIG, console |-> <<>>]

StoreL(h, method, component, via) ==
    /\ loggerConfig' = h.config
    /\ LOGGING_CONFIG' = h.cfg
    /\ console' = h.console
    /\ envL' = [method |-> method, component |-> component, via |-> via]

Configure ==
    \E newConfig \in PartialConfigs :
        /\ StoreL(configure(HeapL, newConfig), "configure", NoComponent, "logger")
        /\ UNCHANGED othersL

SetEnabled ==
    \E enabled \in BOOLEAN :
        /\ StoreL(setEnabled(HeapL, enabled), "setEnabled", NoComponent, "logger")
        /\ UNCHANGED othersL

SetLevel ==
    \E level \in LogLevels :
        /\ StoreL(setLevel(HeapL, level), "setLevel", NoComponent, "logger")
        /\ UNCHANGED othersL

Enable ==
    /\ StoreL(enable(HeapL), "enable", NoComponent, "logger")
    /\ UNCHANGED othersL

Disable ==
    /\ StoreL(disable(HeapL), "disable", NoComponent, "logger")
    /\ UNCHANGED othersL

QuietMode ==
    /\ StoreL(quietMode(HeapL), "quietMode", NoComponent, "logger")
    /\ UNCHANGED othersL

VerboseMode ==
    /\ StoreL(verboseMode(HeapL), "verboseMode", NoComponent, "logger")
    /\ UNCHANGED othersL

\* logger.<method>(message, component) or logger.<method>(message)
LoggerCall ==
    \E method \in LoggerMethods, component \in CallComponents :
        /\ StoreL(LoggerMethod(HeapL, method, component), method, component, "logger")
        /\ UNCHANGED othersL

\* getComponentLogger(component).<method>(message)
ComponentLoggerCall ==
    \E method \in LoggerMethods, component \in CallComponents \ {NoComponent} :
        /\ StoreL(getComponentLogger(HeapL, component, method),
                  method, component, "getComponentLogger")
        /\ UNCHANGED othersL

NextL ==
    \/ Configure
    \/ SetEnabled
    \/ SetLevel
    \/ Enable
    \/ Disable
    \/ QuietMode
    \/ VerboseMode
    \/ LoggerCall
    \/ ComponentLoggerCall

----------------------------------------------------------------------------
(* shared/ShaderManager.ts.                                                *)
(*                                                                         *)
(* A uniform is { value }: the value is a primitive (null or a number, in  *)
(* tenths) or a reference to a THREE object.  An object is its class and   *)
(* its content, a number (the hex value of a Color, the digits x y z of a  *)
(* vector); two references are the same object iff they are the same id.   *)

ObjectIds == 1 .. MaxObjects

FreeSlot == [type |-> "free", data |-> 0]

Prim(n) == [ref |-> Null, prim |-> n]

Ref(id) == [ref |-> id, prim |-> Null]

JsNull == Prim(Null)

\* An object without keys, a Map without entries.
Empty == [k \in {} |-> Null]

\* The classes cloneUniforms clones, and the classes of the uniforms values
\* of the calls.
ClonedTypes == {"Color", "Vector2", "Vector3"}

ValueTypes == {"Color", "Vector2", "Vector3", "Vector4"}

\* The content an in-place change gives an object (color.set(...),
\* vector.set(...), texture.needsUpdate = ...).
OtherData == 1

ShaderNames == {"skyEnvironment", "clouds", "terrain", "shield", "custom"}

\* The identity of the next new object, a free id: the least one for an
\* object made for the registry, the greatest one for an object made for a
\* caller.
NewId(h, forRegistry) ==
    LET free == {i \in ObjectIds : h.objects[i] = FreeSlot}
    IN  IF forRegistry
        THEN CHOOSE i \in free : \A j \in free : i <= j
        ELSE CHOOSE i \in free : \A j \in free : i >= j

\* new THREE.<type>(data), as the object NewId(h, forRegistry)
NewObject(h, type, data, forRegistry) ==
    [h EXCEPT !.objects[NewId(h, forRegistry)] = [type |-> type, data |-> data]]

\* value.clone(), as the object NewId(h, FALSE)
Clone(h, id) == NewObject(h, h.objects[id].type, h.objects[id].data, FALSE)

\* The object literal { key: { value: ... }, ... } of a uniforms list, each
\* entry of the list a key with null, a number or a new object.
RECURSIVE UniformsFrom(_, _, _, _)
UniformsFrom(h, list, forRegistry, uniforms) ==
    IF list = <<>>
    THEN [h |-> h, uniforms |-> uniforms]
    ELSE LET u == Head(list)
         IN  IF u.type = "null"
             THEN UniformsFrom(h, Tail(list), forRegistry,
                               Put(uniforms, u.key, JsNull))
             ELSE IF u.type = "number"
             THEN UniformsFrom(h, Tail(list), forRegistry,
                               Put(uniforms, u.key, Prim(u.v)))
             ELSE UniformsFrom(NewObject(h, u.type, u.v, forRegistry),
                               Tail(list), forRegistry,
                               Put(uniforms, u.key, Ref(NewId(h, forRegistry))))

Uniforms(h, list, forRegistry) == UniformsFrom(h, list, forRegistry, Empty)

Shader(name, uniforms) ==
    [vertexShader |-> <<name, "vertex">>,
     fragmentShader |-> <<name, "fragment">>,
     uniforms |-> uniforms]

\* this.shaders.set(name, { vertexShader, fragmentShader, uniforms })
SetShader(h, name, list) ==
    LET made == Uniforms(h, list, TRUE)
    IN  [made.h EXCEPT !.m.shaders = Put(@, name, Shader(name, made.uniforms))]

ShaderManager_init(h) ==
    IF h.m.initialized
    THEN h
    ELSE LET h1 == SetShader(h, "skyEnvironment",
                       <<[key |-> "skyTexture", type |-> "null", v |-> 0],
                         [key |-> "topColor", type |-> "Color", v |-> 30719],
                         [key |-> "bottomColor", type |-> "Color", v |-> 16777215],
                         [key |-> "offset", type |-> "number", v |-> 4000],
                         [key |-> "exponent", type |-> "number", v |-> 6]>>)
             h2 == SetShader(h1, "clouds",
                       <<[key |-> "cameraPosition", type |-> "Vector3", v |-> 0]>>)
             h3 == SetShader(h2, "terrain",
                       <<[key |-> "diffuseMap", type |-> "null", v |-> 0],
                         [key |-> "normalMap", type |-> "null", v |-> 0],
                         [key |-> "lightDirection", type |-> "Vector3", v |-> 111]>>)
             h4 == SetShader(h3, "shield",
                       <<[key |-> "opacity", type |-> "number", v |-> 5],
                         [key |-> "color", type |-> "Color", v |-> 43775]>>)
         IN  [h4 EXCEPT !.m.initialized = TRUE]

RECURSIVE CloneKeys(_, _, _, _)
CloneKeys(h, uniforms, keys, cloned) ==
    IF keys = {}
    THEN [h |-> h, uniforms |-> cloned]
    ELSE LET key == CHOOSE k \in keys : TRUE
             value == uniforms[key]
         IN  IF value.ref # Null /\ h.objects[value.ref].type \in ClonedTypes
             THEN CloneKeys(Clone(h, value.ref), uniforms, keys \ {key},
                            Put(cloned, key, Ref(NewId(h, FALSE))))
             ELSE CloneKeys(h, uniforms, keys \ {key}, Put(cloned, key, value))

cloneUniforms(h, uniforms) == CloneKeys(h, uniforms, DOMAIN uniforms, Empty)

\* What a caller holds before its first call and after a call that threw.
Nothing == [uniforms |-> Empty]

\* The definition is Nothing when find threw.
find(h, name) ==
    LET h1 == ShaderManager_init(h)
    IN  IF name \notin DOMAIN h1.m.shaders
        THEN [h |-> [h1 EXCEPT !.thrown = TRUE], def |-> Nothing]
        ELSE LET shader == h1.m.shaders[name]
                 cloned == cloneUniforms(h1, shader.uniforms)
             IN  [h |-> cloned.h,
                  def |-> [vertexShader |-> shader.vertexShader,
                           fragmentShader |-> shader.fragmentShader,
                           uniforms |-> cloned.uniforms]]

\* The material is Nothing when find threw.
createMaterial(h, name, overrideUniforms) ==
    LET found == find(h, name)
    IN  IF found.h.thrown
        THEN [h |-> found.h, material |-> Nothing]
        ELSE [h |-> found.h,
              material |->
                  [vertexShader |-> found.def.vertexShader,
                   fragmentShader |-> found.def.fragmentShader,
                   uniforms |->
                       [key \in DOMAIN found.def.uniforms |->
                           IF key \in DOMAIN overrideUniforms
                           THEN overrideUniforms[key]
                           ELSE found.def.uniforms[key]]]]

getAvailableShaders(h) == ShaderManager_init(h)

addShader(h, name, definition) ==
    LET h1 == ShaderManager_init(h)
    IN  [h1 EXCEPT !.m.shaders = Put(@, name, definition)]

\* A definition by value: each uniform with its primitive value or with
\* the class and the content of the object it refers to.
Content(h, def) ==
    [vertexShader |-> def.vertexShader,
     fragmentShader |-> def.fragmentShader,
     uniforms |->
         [key \in DOMAIN def.uniforms |->
             IF def.uniforms[key].ref # Null
             THEN h.objects[def.uniforms[key].ref]
             ELSE [type |-> "primitive", data |-> def.uniforms[key].prim]]]

\* The objects a definition, a material or the registry refers to.
RefsOf(uniforms) ==
    {uniforms[key].ref : key \in DOMAIN uniforms} \ {Null}

Reachable(h) ==
    UNION ({RefsOf(h.m.shaders[name].uniforms) : name \in DOMAIN h.m.shaders}
           \cup {RefsOf(h.held.uniforms)})

\* The objects nothing refers to any more are collected.
Collect(h) ==
    LET reachable == Reachable(h)
    IN  [h EXCEPT !.objects =
            [i \in ObjectIds |-> IF i \in reachable THEN @[i] ELSE FreeSlot]]

\* The class is loaded: no shader is registered before the first call.
\* The caller holds one thing at a time, the definition or the material of
\* its latest call.
InitS ==
    /\ shaderManager = [shaders |-> Empty, initialized |-> FALSE]
    /\ threeObjects = [i \in ObjectIds |-> FreeSlot]
    /\ held = Nothing
    /\ envS = [thrown |-> FALSE, holds |-> "nothing", changes |-> 0,
               registered |-> Empty]

HeapS ==
    [m |-> shaderManager, objects |-> threeObjects, held |-> held,
     thrown |-> FALSE]

\* The caller lets go of what it holds.
LetGo == Collect([HeapS EXCEPT !.held = Nothing])

\* envS.registered keeps, by value, each definition as it was when init or
\* addShader registered it (added: the names this call has registered).
StoreS(h0, holds, changes, added) ==
    LET h == Collect(h0)
    IN  /\ shaderManager' = h.m
        /\ threeObjects' = h.objects
        /\ held' = h.held
        /\ envS' = [thrown |-> h.thrown,
                    holds |-> IF h.held = Nothing THEN "nothing" ELSE holds,
                    changes |-> changes,
                    registered |->
                        [name \in DOMAIN h.m.shaders |->
                            IF name \in DOMAIN envS.registered /\ name \notin added
                            THEN envS.registered[name]
                            ELSE Content(h, h.m.shaders[name])]]

\* const definition = ShaderManager.find(name)
Find ==
    \E name \in ShaderNames :
        LET found == find(LetGo, name)
        IN  /\ StoreS([found.h EXCEPT !.held = found.def], "definition", 0, {})
            /\ UNCHANGED othersS

\* const material = ShaderManager.createMaterial(name, overrides), the
\* overrides none, or one key (of the shader or not) with a number or a
\* new object.
CreateMaterial ==
    \E name \in ShaderNames,
       key \in {"none", "color", "u", "unknown"},
       type \in {"number", "Color"} :
        LET made == IF key = "none"
                    THEN [h |-> LetGo, uniforms |-> Empty]
                    ELSE Uniforms(LetGo, <<[key |-> key, type |-> type, v |-> OtherData]>>,
                                  FALSE)
            created == createMaterial(made.h, name, made.uniforms)
        IN  /\ key = "none" => type = "number"
            /\ StoreS([created.h EXCEPT !.held = created.material], "material", 0, {})
            /\ UNCHANGED othersS

GetAvailableShaders ==
    /\ StoreS(getAvailableShaders(HeapS), envS.holds, envS.changes, {})
    /\ UNCHANGED othersS

\* ShaderManager.addShader('custom', { ..., uniforms: { u: { value } } }),
\* the caller keeping no reference to the definition.
AddShader ==
    \E type \in ValueTypes \cup {"number"} :
        LET made == Uniforms(HeapS, <<[key |-> "u", type |-> type, v |-> 0]>>, TRUE)
        IN  /\ StoreS(addShader(made.h, "custom", Shader("custom", made.uniforms)),
                      envS.holds, envS.changes, {"custom"})
            /\ UNCHANGED othersS

\* The caller changes the definition find has returned to it.
MayChange == envS.holds = "definition" /\ envS.changes < MaxChanges

\* held.uniforms.extra = { value: 1 }
HeldAddEntry ==
    /\ MayChange
    /\ "extra" \notin DOMAIN held.uniforms
    /\ StoreS([HeapS EXCEPT !.held.uniforms = Put(@, "extra", Prim(OtherData))],
              envS.holds, envS.changes + 1, {})
    /\ UNCHANGED othersS

\* held.uniforms[key] = { value: 1 }
HeldReplaceEntry ==
    /\ MayChange
    /\ \E key \in DOMAIN held.uniforms :
           /\ held.uniforms[key] # Prim(OtherData)
           /\ StoreS([HeapS EXCEPT !.held.uniforms[key] = Prim(OtherData)],
                     envS.holds, envS.changes + 1, {})
    /\ UNCHANGED othersS

\* held.uniforms[key].value = new THREE.Color(...)
HeldSetValue ==
    /\ MayChange
    /\ \E key \in DOMAIN held.uniforms :
           StoreS([NewObject(HeapS, "Color", OtherData, FALSE)
                       EXCEPT !.held.uniforms[key] = Ref(NewId(HeapS, FALSE))],
                  envS.holds, envS.changes + 1, {})
    /\ UNCHANGED othersS

\* held.uniforms[key].value.set(...): the value changes in place
HeldChangeInPlace ==
    /\ MayChange
    /\ \E key \in DOMAIN held.uniforms :
           /\ held.uniforms[key].ref # Null
           /\ threeObjects[held.uniforms[key].ref].data # OtherData
           /\ StoreS([HeapS EXCEPT !.objects[held.uniforms[key].ref].data = OtherData],
                     envS.holds, envS.changes + 1, {})
    /\ UNCHANGED othersS

NextS ==
    \/ Find
    \/ CreateMaterial
    \/ GetAvailableShaders
    \/ AddShader
    \/ HeldAddEntry
    \/ HeldReplaceEntry
    \/ HeldSetValue
    \/ HeldChangeInPlace

----------------------------------------------------------------------------
(* The specifications: one scene runs, the others stay as constructed.     *)

vars == <<now, sceneC, physicsEngine, threeC, envC, envP, sceneE, threeE, envE,
         sceneB, threeB, envB, sceneD, envD,
         loggerConfig, LOGGING_CONFIG, console, envL,
         shaderManager, threeObjects, held, envS>>

Init ==
    /\ now = StartTime
    /\ InitC
    /\ InitP
    /\ InitE
    /\ InitB
    /\ InitD
    /\ InitL
    /\ InitS

SpecC == Init /\ [][NextC]_vars

SpecPhysics == Init /\ [][NextP]_vars

SpecE == Init /\ [][NextE]_vars

SpecHits == Init /\ [][NextHits]_vars

SpecShots == Init /\ [][NextShots]_vars

SpecB == Init /\ [][NextB]_vars

SpecD == Init /\ [][NextD]_vars

\* One of the scenes B, C and D runs (the page shows one scene at a time).
NextLoads ==
    \/ now = StartTime /\ InitC /\ InitD /\ NextB
    \/ InitB /\ InitD /\ NextC
    \/ now = StartTime /\ InitC /\ InitB /\ NextD

SpecLoads == Init /\ [][NextLoads]_vars

\* The logger, with loggerConfig.ts as the source has it or with the
\* COMPONENTS entries edited as the README describes.
InitLogger ==
    /\ now = StartTime
    /\ InitC
    /\ InitP
    /\ InitE
    /\ InitB
    /\ InitD
    /\ \E components \in EditedComponents : InitLWith(components)
    /\ InitS

SpecLogger == InitLogger /\ [][NextL]_vars

SpecShaders == Init /\ [][NextS]_vars

\* A frame now would end the current phase.
FrameDue ==
    /\ sceneC.animationId # Null
    /\ sceneC.isLoaded /\ sceneC.physicsInitialized
    /\ PhaseComplete(sceneC, now)
    /\ BeginsCycle(sceneC, now) => sceneC.currentCycleNumber < MaxCycles

\* Time passes, and requestAnimationFrame calls the frame callback again and
\* again until it is cancelled: weak fairness of TickC, and of the frames
\* that end a phase (FrameDue implies that AnimateC is enabled and changes
\* the state; the fairness is written out with FrameDue for ENABLED).
FairSpecC ==
    /\ SpecC
    /\ WF_vars(TickC)
    /\ ([]<>(~FrameDue) \/ []<><<AnimateC>>_vars)

----------------------------------------------------------------------------
(* ThreeSceneC: properties.                                                *)

\* The first cycle has begun (beginNewCycle has run) and dispose() has not.
CycleBegun == sceneC.currentCycleNumber >= 1 /\ ~envC.disposed

FramesArrive == sceneC.animationId # Null

\* A call of animate(): by the owner of the scene or by requestAnimationFrame.
FrameC == StartAnimationC \/ AnimateC

\* The last phase the model explores: the cap on currentCycleNumber stops it.
LastPhase == sceneC.currentCycleNumber = MaxCycles /\ sceneC.collisionPhase = "cleanup"

PhaseChanges == sceneC'.collisionPhase # sceneC.collisionPhase

PhaseStep == <<sceneC.collisionPhase, sceneC'.collisionPhase>>

Elapsed == now - sceneC.phaseStartTime

\* C1, as stated: from startCollisionSequence on (isLoaded), collisionPhase
\* changes only along setup -> physics -> cleanup -> setup, and only on a
\* frame at which the elapsed time is at least the phase's duration.
C1_PhaseCycleOnceLoaded ==
    [][sceneC.isLoaded /\ PhaseChanges
         => /\ PhaseStep \in {<<"setup", "physics">>, <<"physics", "cleanup">>,
                               <<"cleanup", "setup">>}
            /\ FrameC
            /\ Elapsed >= phaseDurations[sceneC.collisionPhase]]_vars

\* C1, amended: from the first beginNewCycle until dispose(), collisionPhase
\* changes only along setup -> physics -> cleanup -> setup (the last step
\* beginning the next cycle), only on a frame at which the elapsed time is at
\* least the phase's duration; and while frames arrive every phase is left.
C1_PhaseCycle ==
    /\ [][CycleBegun /\ ~envC'.disposed /\ PhaseChanges
            => /\ PhaseStep \in {<<"setup", "physics">>, <<"physics", "cleanup">>,
                                  <<"cleanup", "setup">>}
               /\ sceneC.collisionPhase = "cleanup"
                      <=> sceneC'.currentCycleNumber = sceneC.currentCycleNumber + 1
               /\ FrameC
               /\ Elapsed >= phaseDurations[sceneC.collisionPhase]]_vars
    /\ \A p \in Phases :
          (CycleBegun /\ FramesArrive /\ sceneC.collisionPhase = p /\ ~LastPhase)
              ~> (sceneC.collisionPhase # p \/ envC.disposed)

\* A second cycle has come to its last phase on frames alone.
C1_Witness ==
    /\ CycleBegun /\ FramesArrive
    /\ sceneC.currentCycleNumber = 2
    /\ sceneC.collisionPhase = "cleanup"
    /\ Elapsed >= phaseDurations["cleanup"]

\* The body of a mesh.
BodyOf(mesh) == CHOOSE id \in DOMAIN physicsEngine.bodies :
                    physicsEngine.bodies[id].mesh = mesh

\* C2: on an initialized engine the mesh of every registered body is where
\* the physics world reports the body; and every frame of ThreeSceneC, once
\* loading has completed, steps the world (in every phase, also on the frame
\* that changes the phase), so that every body that stays registered is
\* where the step has put it.
C2_MeshFollowsBody ==
    /\ [](~NotInitialized(physicsEngine)
             => \A id \in DOMAIN physicsEngine.bodies :
                   threeC.position[physicsEngine.bodies[id].mesh]
                       = physicsEngine.bodies[id].translation)
    /\ [][sceneC.isLoaded /\ FrameC
            => \A id \in DOMAIN physicsEngine.bodies \cap DOMAIN physicsEngine'.bodies :
                  /\ physicsEngine'.bodies[id].translation
                         = WorldStep(physicsEngine.bodies)[id].translation
                  /\ threeC'.position[physicsEngine.bodies[id].mesh]
                         = WorldStep(physicsEngine.bodies)[id].translation]_vars

\* The phase has just changed on a frame, and an atom that the frames have
\* moved from where it was launched has its mesh at the body's position.
C2_Witness ==
    /\ CycleBegun
    /\ sceneC.collisionPhase = "cleanup"
    /\ now = sceneC.phaseStartTime
    /\ \E i \in DOMAIN sceneC.atoms :
          /\ threeC.position[sceneC.atoms[i]] \notin {0 - LaunchX, LaunchX}
          /\ threeC.position[sceneC.atoms[i]]
                 = physicsEngine.bodies[BodyOf(sceneC.atoms[i])].translation

\* C10, as stated: the four phases setup, firing, physics, cleanup follow
\* one another in that order.
C10_FourPhases ==
    [][CycleBegun /\ ~envC'.disposed /\ PhaseChanges
         => PhaseStep \in {<<"setup", "firing">>, <<"firing", "physics">>,
                           <<"physics", "cleanup">>, <<"cleanup", "setup">>}]_vars

\* C10, amended: a cycle has three phases.  setup, physics and cleanup are
\* entered in that order in every cycle (while frames arrive, and until
\* dispose()); the firing phase is never entered.
C10_ThreePhases ==
    /\ [](sceneC.collisionPhase # "firing")
    /\ [][CycleBegun /\ ~envC'.disposed /\ PhaseChanges
            /\ sceneC'.currentCycleNumber = sceneC.currentCycleNumber
            => PhaseStep \in {<<"setup", "physics">>, <<"physics", "cleanup">>}]_vars
    /\ [][CycleBegun /\ ~envC'.disposed
            /\ sceneC'.currentCycleNumber # sceneC.currentCycleNumber
            => PhaseStep = <<"cleanup", "setup">>]_vars
    /\ \A k \in 1 .. MaxCycles :
          (CycleBegun /\ FramesArrive /\ sceneC.currentCycleNumber = k
                /\ sceneC.collisionPhase = "setup")
              ~> (envC.disposed
                    \/ (sceneC.currentCycleNumber = k /\ sceneC.collisionPhase = "physics"))
    /\ \A k \in 1 .. MaxCycles :
          (CycleBegun /\ FramesArrive /\ sceneC.currentCycleNumber = k
                /\ sceneC.collisionPhase = "physics")
              ~> (envC.disposed
                    \/ (sceneC.currentCycleNumber = k /\ sceneC.collisionPhase = "cleanup"))

\* The physics phase of a cycle, entered from its setup phase.
C10_Witness ==
    /\ CycleBegun /\ FramesArrive
    /\ sceneC.currentCycleNumber = 2
    /\ sceneC.collisionPhase = "physics"
    /\ now = sceneC.phaseStartTime

----------------------------------------------------------------------------
(* ThreeSceneE: the properties.                                            *)

\* The per-frame callback animate runs: the owner's first call, or a display
\* frame while the callback has not been cancelled.
AnimateE == StartAnimationE \/ (DisplayFrameE /\ sceneE.animationId # Null)

ShipLoadSettles == ShipLoadResolves \/ ShipLoadRejects

FontLoadSettles == FontLoadResolves \/ FontLoadRejects

\* C3, as stated: the per-frame callback is the one mutator of the scene's
\* state; the game state, the entity lists and the scene graph change only
\* in a step in which animate runs.
C3_OneMutator ==
    [][<<sceneE.gameState, sceneE.asteroids, sceneE.bullets, sceneE.ship,
         threeE.scene>>' #
       <<sceneE.gameState, sceneE.asteroids, sceneE.bullets, sceneE.ship,
         threeE.scene>> => AnimateE]_vars

\* C3, amended: ThreeSceneE has several mutators.  The game state changes
\* only in the keydown listener; the ship only when loadShip settles; the
\* asteroids only when loadShip settles or animate runs; the scene graph in
\* the keydown listener, when a load settles, and in the frame callbacks
\* (animate and the explosions' closures).  Only animate changes the
\* bullets, the score, the lives, the shields and the level.
C3_Mutators ==
    /\ [][sceneE.gameState' # sceneE.gameState => KeyDownE]_vars
    /\ [][sceneE.ship' # sceneE.ship => ShipLoadSettles]_vars
    /\ [][sceneE.asteroids' # sceneE.asteroids => ShipLoadSettles \/ AnimateE]_vars
    /\ [][threeE.scene' # threeE.scene =>
              KeyDownE \/ FontLoadSettles \/ ShipLoadSettles \/ StartAnimationE
                  \/ DisplayFrameE]_vars
    /\ [][<<sceneE.bullets, sceneE.score, sceneE.lives, sceneE.shields,
            sceneE.level>>' #
          <<sceneE.bullets, sceneE.score, sceneE.lives, sceneE.shields,
            sceneE.level>> => AnimateE]_vars

\* The keydown listener has started the game, animate has scored a hit, and
\* after dispose() the explosion's closure has run to its last frame.
C3_Witness ==
    /\ sceneE.gameState = "PLAYING"
    /\ sceneE.score > 0
    /\ envE.disposed
    /\ \E k \in DOMAIN envE.explosions :
          envE.explosions[k].explosionTimer >= ExplosionFrames

\* C4, as stated: once dispose() has returned, a key event changes nothing:
\* the keys and the game state stay as they are and no ship load starts;
\* and animate is not scheduled.
C4_DisposedIgnoresKeys ==
    /\ [](envE.disposed => sceneE.animationId = Null)
    /\ [][envE.disposed =>
              /\ sceneE.keys' = sceneE.keys
              /\ sceneE.gameState' = sceneE.gameState
              /\ envE.shipLoad' = "pending" => envE.shipLoad = "pending"]_vars

\* C9, as stated for ThreeSceneE: when an explosion has run its 30 frames,
\* or its closure is no longer scheduled, none of its 15 particles is in the
\* scene.
C9_ExplosionParticlesRemoved ==
    \A k \in DOMAIN envE.explosions :
        (envE.explosions[k].explosionTimer >= ExplosionFrames
            \/ ~envE.explosions[k].scheduled)
        => envE.explosions[k].made \cap threeE.scene = {}

----------------------------------------------------------------------------
(* The failures of loads, initialisation and requests: the properties.     *)

\* C5, as stated: no operation propagates a failure; the promises of
\* loadModel, loadDefaultModel, PhysicsEngine.init, fetchLotteryData and
\* fetchHistoricalData never reject.
C5_NothingPropagated ==
    /\ \A k \in DOMAIN envB.calls : envB.calls[k].promise # "rejected"
    /\ envB.loadDefaultModel # "rejected"
    /\ envC.physicsInit # "rejected"
    /\ envD.fetchLotteryData # "rejected"
    /\ envD.fetchHistoricalData # "rejected"

\* C5, amended: nothing is retried (one request per call) and
\* loadDefaultModel, fetchLotteryData and fetchHistoricalData never reject;
\* loadModel and PhysicsEngine.init log the failure and throw it on to their
\* callers, of which loadDefaultModel, handleLoadModel and initAsync catch
\* and log it.
C5_FailuresHandled ==
    /\ envB.loadDefaultModel # "rejected"
    /\ envD.fetchLotteryData # "rejected"
    /\ envD.fetchHistoricalData # "rejected"
    /\ envD.requests.lottery <= 1 /\ envD.requests.historical <= 1
    /\ sceneD.drawDate = "now" => "fetchLotteryData" \in envD.errors
    /\ \A k \in DOMAIN envB.calls :
          envB.calls[k].promise = "rejected" =>
              /\ "loadModel" \in envB.errors
              /\ envB.calls[k].caller = "loadDefaultModel" =>
                    /\ envB.loadDefaultModel = "fulfilled"
                    /\ "loadDefaultModel" \in envB.errors
              /\ envB.calls[k].caller = "handleLoadModel" =>
                    envB.alerted /\ "handleLoadModel" \in envB.errors
    /\ envC.physicsInit = "rejected" =>
          envC.initAsync = "fulfilled" /\ ~envC.uncaught /\ ~sceneC.physicsInitialized

\* The default model failed to load: loadModel rejected, loadDefaultModel
\* caught the error and completed.
C5_Witness ==
    \E k \in DOMAIN envB.calls :
        /\ envB.calls[k].caller = "loadDefaultModel"
        /\ envB.calls[k].promise = "rejected"
        /\ envB.loadDefaultModel = "fulfilled"

\* The k-th call of loadModel fails in this step.
LoadModelFails(k) ==
    /\ envB.calls'[k].promise = "rejected"
    /\ k \in DOMAIN envB.calls => envB.calls[k].promise = "pending"

\* C6, as stated: when a call of loadModel fails that was made while a model
\* was displayed, a model is in the scene afterwards.
C6_AlwaysShowsModel ==
    [][\A k \in DOMAIN envB.calls' :
          LoadModelFails(k) /\ envB.calls'[k].displayed => threeB.scene' # {}]_vars

\* The default model fails to load in this step.
DefaultModelFails ==
    \E k \in DOMAIN envB.calls :
        /\ envB.calls[k].caller = "loadDefaultModel"
        /\ envB.calls[k].promise = "pending"
        /\ envB.calls'[k].promise = "rejected"

\* currentModel is a group of one cube with the 'metal' material, in the
\* scene, and loadDefaultModel has completed.
FallbackShown ==
    /\ sceneB.currentModel # Null
    /\ threeB.groups[sceneB.currentModel] = [kind |-> "cube", material |-> "metal"]
    /\ sceneB.currentModel \in threeB.scene
    /\ envB.loadDefaultModel = "fulfilled"

\* C7, as stated: when the default model fails to load, the fallback cube
\* is shown and the progress is 70.
C7_FallbackCube ==
    [][DefaultModelFails => FallbackShown' /\ sceneB.progress' = 70]_vars

\* C7, amended: when the default model fails to load, the fallback cube is
\* shown; the progress is set to 70 unless dispose() has dropped the
\* loading bar, and then it stays as it was.
C7_FallbackCubeProgressIfLoader ==
    [][DefaultModelFails =>
          /\ FallbackShown'
          /\ sceneB.progress' = IF sceneB.loadingBar THEN 70 ELSE sceneB.progress]_vars

\* The default model has failed to load, and the cube is shown at 70.
C7_Witness ==
    /\ \E k \in DOMAIN envB.calls :
          envB.calls[k].caller = "loadDefaultModel" /\ envB.calls[k].promise = "rejected"
    /\ FallbackShown
    /\ sceneB.progress = 70

\* fetchLotteryData fails in this step: the API is unreachable or answers
\* with a status that is not ok.
LotteryFetchFails == LotteryFetchRejects \/ LotteryFetchNotOk

\* C8: when the API is unreachable or answers with a status that is not ok,
\* fetchLotteryData completes with the demo numbers and the multiplier '2';
\* and currentNumbers always has at least six entries, one for each ball.
C8_DemoNumbers ==
    /\ [][LotteryFetchFails =>
              /\ sceneD.currentNumbers' = <<13, 47, 52, 64, 67, 25>>
              /\ sceneD.multiplier' = "2"
              /\ envD.fetchLotteryData' = "fulfilled"]_vars
    /\ [](Len(sceneD.currentNumbers) >= 6
            /\ Len(sceneD.currentNumbers) >= sceneD.lotteryBalls)
    /\ [](envD.fetchLotteryData # "rejected")

\* The request has failed and the scene shows the demo numbers.
C8_Witness ==
    /\ envD.fetchLotteryData = "fulfilled"
    /\ "fetchLotteryData" \in envD.errors
    /\ sceneD.currentNumbers = DemoNumbers
    /\ sceneD.multiplier = "2"

----------------------------------------------------------------------------
(* ThreeSceneC: the phase as an index, the setup phase, and dispose().     *)

\* C11: collisionPhase is always a key of phaseDurations, and the duration
\* looked up for it is a number.
C11_PhaseInRange ==
    /\ sceneC.collisionPhase \in DOMAIN phaseDurations
    /\ phaseDurations[sceneC.collisionPhase] \in Nat

\* dispose() has run in the cleanup phase of a cycle and left a phase that
\* is a key.
C11_Witness ==
    /\ envC.disposed
    /\ sceneC.currentCycleNumber >= 1
    /\ sceneC.collisionPhase = "setup"
    /\ now - sceneC.phaseStartTime >= phaseDurations["physics"]

----------------------------------------------------------------------------
(* The logger: which calls write to the console.                           *)

LevelMethods == {"debug", "info", "log", "warn", "error"}

\* The level of a level method (log is info), and the console method it uses.
MethodLevel(method) ==
    CASE method = "debug" -> LogLevel.DEBUG
      [] method \in {"info", "log"} -> LogLevel.INFO
      [] method = "warn" -> LogLevel.WARN
      [] method = "error" -> LogLevel.ERROR

\* The latest call was logger.<method>(...) itself.
DirectCall == envL.via = "logger" /\ envL.method \in LoggerMethods

\* C12: a call of logger.debug/info/log/warn/error writes (one message,
\* tagged with its level) exactly if config.enabled holds and the level of
\* the method is at least config.level; with enabled = false no method of
\* the logger writes anything, and with level NONE none does either;
\* whatever configuration calls came before.
C12_EmitsIffEnabledAndLevel ==
    /\ DirectCall /\ envL.method \in LevelMethods =>
          IF loggerConfig.enabled /\ MethodLevel(envL.method) >= loggerConfig.level
          THEN /\ Len(console) = 1
               /\ console[1].text.level = LevelName(MethodLevel(envL.method))
               /\ console[1].text.message = "message"
          ELSE console = <<>>
    /\ DirectCall /\ ~loggerConfig.enabled => console = <<>>
    /\ DirectCall /\ loggerConfig.level = LogLevel.NONE => console = <<>>

\* A warning is written at level WARN, and an info call is dropped at that
\* level, after configure() has changed the configuration.
C12_Witness ==
    /\ DirectCall
    /\ ~loggerConfig.showTimestamps
    /\ loggerConfig.enabled
    /\ loggerConfig.level = LogLevel.WARN
    /\ \/ envL.method = "warn" /\ console # <<>>
       \/ envL.method = "info" /\ console = <<>>

\* The latest call named a component, through either route.
ComponentCall ==
    /\ envL.method \in LoggerMethods
    /\ envL.component # NoComponent

\* C13: a COMPONENTS entry set to false silences every call that names the
\* component, through getComponentLogger(component) and through
\* logger.<method>(message, component) alike; a component that is not
\* disabled (its entry is true, or it has none) logs through
\* getComponentLogger whatever the logger's configuration lets through.
C13_ComponentSwitch ==
    /\ ComponentCall /\ envL.component \in DOMAIN LOGGING_CONFIG.COMPONENTS
          /\ ~LOGGING_CONFIG.COMPONENTS[envL.component]
          => console = <<>>
    /\ ComponentCall /\ envL.via = "getComponentLogger"
          /\ envL.method \in LevelMethods
          /\ ~(/\ envL.component \in DOMAIN LOGGING_CONFIG.COMPONENTS
               /\ ~LOGGING_CONFIG.COMPONENTS[envL.component])
          /\ shouldLog(HeapL, MethodLevel(envL.method))
          => console # <<>>

\* C14: once verboseMode() has been called, each of debug, info, warn and
\* error writes its message, whatever the configuration was before.
C14_VerboseShowsAll ==
    envL.method = "verboseMode" =>
        \A method \in LevelMethods :
            LoggerMethod(HeapL, method, NoComponent).console # <<>>

----------------------------------------------------------------------------
(* ShaderManager: what find returns.                                       *)

\* What ShaderManager.find(name) would return now, by value.
FindContent(name) ==
    LET found == find(HeapS, name)
    IN  IF found.h.thrown
        THEN [vertexShader |-> <<>>, fragmentShader |-> <<>>, uniforms |-> Empty]
        ELSE Content(found.h, found.def)

\* What ShaderManager.createMaterial(name) would hold now, by value.
MaterialContent(name) ==
    LET created == createMaterial(HeapS, name, Empty)
    IN  IF created.h.thrown
        THEN [vertexShader |-> <<>>, fragmentShader |-> <<>>, uniforms |-> Empty]
        ELSE Content(created.h, created.material)

\* find and createMaterial return, by value, each of these shaders as it
\* was registered.
Protected(names) ==
    \A name \in names \cap DOMAIN envS.registered :
        /\ FindContent(name) = envS.registered[name]
        /\ MaterialContent(name) = envS.registered[name]

\* C15: no change a caller makes to a definition find returned (an entry
\* added or replaced, a value set, a value changed in place) and no
\* override passed to createMaterial changes what a later find or
\* createMaterial returns, for the built-in shaders and for a shader added
\* with addShader, whatever the classes of its uniform values.
C15_FindProtectsRegistry == Protected(ShaderNames)

\* The same for the four shaders init() registers.
BuiltInsProtected == Protected(ShaderNames \ {"custom"})

\* C18: once dispose() has returned, no physics world exists and none is
\* created, no body and no atom is created, no cycle starts and no error
\* is raised: the pending PhysicsEngine.init and the pending startCycle
\* timer have no effect any more.
C18_NothingAfterDispose ==
    /\ [](envC.disposed =>
             /\ ~physicsEngine.world
             /\ DOMAIN physicsEngine.bodies = {}
             /\ sceneC.atoms = <<>>)
    /\ [][envC.disposed =>
             /\ sceneC'.currentCycleNumber = sceneC.currentCycleNumber
             /\ envC'.uncaught = envC.uncaught]_vars

\* C20, as stated: while a cycle is in its setup phase no atom moves: a step
\* that begins and ends in the setup phase of the same cycle leaves every
\* atom's mesh, and its body, where it was.
C20_StationaryDuringSetup ==
    [][(/\ CycleBegun
        /\ sceneC.collisionPhase = "setup"
        /\ sceneC'.collisionPhase = "setup"
        /\ sceneC'.currentCycleNumber = sceneC.currentCycleNumber)
         => \A i \in DOMAIN sceneC.atoms \cap DOMAIN sceneC'.atoms :
               sceneC'.atoms[i] = sceneC.atoms[i]
                 => /\ threeC'.position[sceneC.atoms[i]]
                        = threeC.position[sceneC.atoms[i]]
                    /\ physicsEngine'.bodies[BodyOf(sceneC.atoms[i])].translation
                        = physicsEngine.bodies[BodyOf(sceneC.atoms[i])].translation]_vars

\* The bodies of the engine that are static (the boundary) and dynamic.
StaticBodies == {id \in DOMAIN physicsEngine.bodies : ~physicsEngine.bodies[id].dynamic}

DynamicBodies == {id \in DOMAIN physicsEngine.bodies : physicsEngine.bodies[id].dynamic}

\* The meshes in the scene other than the particles of collision effects.
SolidMeshes == {mesh \in threeC.scene : mesh >= 0}

\* C21: from the first cycle on and until dispose(), after every callback
\* atoms and atomPhysicsIds have the same length n, 8 <= n <= 16; the i-th
\* id is the one dynamic body of the i-th atom; the engine holds the 4
\* static boundary bodies and these n bodies and nothing else, and the
\* scene holds the boundary meshes and these n atoms and no older atom.
C21_NoAccumulation ==
    CycleBegun =>
        LET n == Len(sceneC.atoms)
        IN  /\ Len(sceneC.atomPhysicsIds) = n
            /\ n >= ParticleCountBase
            /\ n <= ParticleCountBase + ParticleCountSpread - 1
            /\ \A i \in 1 .. n :
                  /\ sceneC.atomPhysicsIds[i] \in DynamicBodies
                  /\ {id \in DOMAIN physicsEngine.bodies :
                         physicsEngine.bodies[id].mesh = sceneC.atoms[i]}
                       = {sceneC.atomPhysicsIds[i]}
                  /\ sceneC.atoms[i] \in threeC.scene
            /\ Cardinality(Range(sceneC.atoms)) = n
            /\ DynamicBodies = Range(sceneC.atomPhysicsIds)
            /\ StaticBodies = {sceneC.floorPhysicsId} \cup Range(sceneC.wallPhysicsIds)
            /\ Cardinality(StaticBodies) = 4
            /\ Cardinality(DOMAIN physicsEngine.bodies) = 4 + n
            /\ Cardinality(SolidMeshes) = 4 + n

\* The second cycle has begun, with a number of atoms other than the first
\* cycle's 8, 13 or 16, and its atoms are not the first cycle's.
C21_Witness ==
    /\ CycleBegun
    /\ sceneC.currentCycleNumber = 2
    /\ Len(sceneC.atoms) = 13
    /\ sceneC.atomPhysicsIds[1] >= 4 + ParticleCountBase
    /\ Cardinality(DOMAIN physicsEngine.bodies) = 17

----------------------------------------------------------------------------
(* ThreeSceneE: levels, waves and the title screen.                        *)

\* A wave: count asteroids, all of size 3.
IsWave(asteroids, count) ==
    /\ Len(asteroids) = count
    /\ \A a \in DOMAIN asteroids : asteroids[a].size = LargeAsteroid

\* C16: the level goes up by exactly one, with a new wave of 5 + 2 * level
\* asteroids of size 3, and only in a step that has destroyed the last
\* asteroid; the first asteroids are made when the ship has loaded, at
\* level 1 and 7 of them, whatever the order of the loads and the frames.
C16_LevelsAndWaves ==
    [][/\ sceneE'.level > sceneE.level =>
             /\ sceneE'.level = sceneE.level + 1
             /\ sceneE.asteroids # <<>>
             /\ IsWave(sceneE'.asteroids,
                       AsteroidCountBase + AsteroidCountPerLevel * sceneE'.level)
       /\ ShipLoadSettles =>
             /\ sceneE.asteroids = <<>>
             /\ sceneE'.level = 1
             /\ IsWave(sceneE'.asteroids, AsteroidCountBase + AsteroidCountPerLevel)
      ]_vars

TitleObjects == {TitleMesh, SubtitleMesh, TitleGroup}

\* C17: the game starts in TITLE_SCREEN; the ship, the asteroids and the
\* bullets change only while PLAYING or when the game starts; the state
\* changes only from TITLE_SCREEN to PLAYING, on a Space keydown; and from
\* that transition on no title object is in the scene, with the 3D text
\* and with the fallback title, whatever the order of Space and the end of
\* loadFont.
C17_TitleHiddenWhilePlaying ==
    /\ [](sceneE.gameState = "PLAYING" => threeE.scene \cap TitleObjects = {})
    /\ [][/\ sceneE'.gameState # sceneE.gameState =>
                 /\ sceneE.gameState = "TITLE_SCREEN"
                 /\ sceneE'.gameState = "PLAYING"
                 /\ KeyDownE
          /\ <<sceneE.ship, sceneE.asteroids, sceneE.bullets>>'
                 # <<sceneE.ship, sceneE.asteroids, sceneE.bullets>> =>
                 sceneE'.gameState = "PLAYING"
         ]_vars

----------------------------------------------------------------------------
(* ThreeSceneB: the models in the scene.                                   *)

\* C19: at any time the scene holds at most one product model, and it is
\* currentModel, also when calls of loadModel overlap; once every load has
\* completed, the model of exactly one of them is in the scene.
C19_OneModelInScene ==
    /\ Cardinality(threeB.scene) <= 1
    /\ threeB.scene \subseteq {sceneB.currentModel}
    /\ (/\ envB.calls # <<>>
        /\ \A k \in DOMAIN envB.calls : envB.calls[k].promise = "fulfilled")
          => Cardinality(threeB.scene) = 1

----------------------------------------------------------------------------
(* ThreeSceneE: hits on the ship, and bullets that hit asteroids.          *)

\* The ship can be hit: the game is on and the ship exists.
ShipInPlay == sceneE.gameState = "PLAYING" /\ sceneE.ship # Null

\* What one hit on the ship would make of the current state.
Hit == playerHit(HeapE).e

\* C22: a hit with shields left takes one shield and no life; a hit without
\* shields takes one life and, if a life remains, puts the shields back at
\* maxShields; the hit that takes the last life resets score, lives, level
\* and shields.  After every callback, whatever the number of asteroids
\* that touched the ship in a frame, 0 <= shields <= 3 and 1 <= lives <= 3.
C22_ShieldsThenLives ==
    /\ sceneE.shields \in 0 .. maxShields
    /\ sceneE.lives \in 1 .. InitialLives
    /\ maxShields = 3
    /\ InitialLives = 3
    /\ ShipInPlay =>
          /\ sceneE.shields > 0 =>
                /\ Hit.shields = sceneE.shields - 1
                /\ Hit.lives = sceneE.lives
          /\ (sceneE.shields = 0 /\ sceneE.lives > 1) =>
                /\ Hit.lives = sceneE.lives - 1
                /\ Hit.shields = maxShields
          /\ (sceneE.shields = 0 /\ sceneE.lives = 1) =>
                /\ Hit.score = 0
                /\ Hit.lives = 3
                /\ Hit.level = 1
                /\ Hit.shields = 3

\* Twelve hits have taken the three lives, a bullet had scored before, and
\* the game has been reset; a later hit has taken a shield.
C22_Witness ==
    /\ ShipInPlay
    /\ Len(envE.explosions) > (maxShields + 1) * InitialLives
    /\ envE.shotsFired = 1
    /\ sceneE.score = 0
    /\ sceneE.lives = InitialLives
    /\ sceneE.level = 1
    /\ sceneE.shields = maxShields - 1

\* The meshes of the asteroids of a list, and of the bullets.
AsteroidMeshes(asteroids) == {a.mesh : a \in Range(asteroids)}

BulletMeshes(bullets) == {b.mesh : b \in Range(bullets)}

\* The objects the scene has made as particles of explosions.
ExplosionParticles == UNION {envE.explosions[k].made : k \in DOMAIN envE.explosions}

\* What the hit of bullet b on asteroid a would make of the current state.
AfterBulletHit(b, a) == BulletHit(HeapE, b, a)

\* The asteroids of the list after the hit that were not in it before.
Fragments(b, a) ==
    {x \in Range(AfterBulletHit(b, a).e.asteroids) :
        x.mesh \notin AsteroidMeshes(sceneE.asteroids)}

\* C23: after every callback each asteroid of the list has its mesh in the
\* scene, and the scene holds no asteroid or bullet that has left its list.
\* A bullet that hits an asteroid of size s leaves the list and the scene,
\* and so does the asteroid, and no other asteroid; a regular bullet adds
\* s * 100 to the score and two fragments of size s - 1 if s > 1, none if
\* s = 1; a super shot adds s * 200 and no fragment.
C23_BulletHits ==
    /\ AsteroidMeshes(sceneE.asteroids) \subseteq threeE.scene
    /\ Cardinality(AsteroidMeshes(sceneE.asteroids)) = Len(sceneE.asteroids)
    /\ threeE.scene \subseteq {Stars, TitleMesh, SubtitleMesh, TitleGroup, Ship}
                               \cup AsteroidMeshes(sceneE.asteroids)
                               \cup BulletMeshes(sceneE.bullets)
                               \cup ExplosionParticles
    /\ \A b \in DOMAIN sceneE.bullets : \A a \in DOMAIN sceneE.asteroids :
          LET bullet == sceneE.bullets[b]
              asteroid == sceneE.asteroids[a]
              after == AfterBulletHit(b, a)
          IN  /\ bullet.mesh \notin BulletMeshes(after.e.bullets)
              /\ bullet.mesh \notin after.three.scene
              /\ Len(after.e.bullets) = Len(sceneE.bullets) - 1
              /\ AsteroidMeshes(sceneE.asteroids) \ AsteroidMeshes(after.e.asteroids)
                    = {asteroid.mesh}
              /\ asteroid.mesh \notin after.three.scene
              /\ AsteroidMeshes(after.e.asteroids) \subseteq after.three.scene
              /\ after.e.score = sceneE.score
                    + asteroid.size * (IF bullet.isSuper THEN 200 ELSE 100)
              /\ Cardinality(Fragments(b, a))
                    = (IF ~bullet.isSuper /\ asteroid.size > 1 THEN 2 ELSE 0)
              /\ Len(after.e.asteroids)
                    = Len(sceneE.asteroids) - 1 + Cardinality(Fragments(b, a))
              /\ \A x \in Fragments(b, a) : x.size = asteroid.size - 1

\* Three regular bullets have hit an asteroid of size 3, then 2, then 1:
\* the score is 600, and a fragment of size 1 and one of size 2 are left.
C23_Witness ==
    /\ envE.shotsFired = 3
    /\ sceneE.score = 600
    /\ Len(envE.explosions) = 3
    /\ \E x \in Range(sceneE.asteroids) : x.size = 1
    /\ sceneE.level = 1
    /\ Len(sceneE.asteroids) = AsteroidCountBase + AsteroidCountPerLevel + 1

----------------------------------------------------------------------------
(* PhysicsEngine: the engine that is not initialized.                      *)

AddCalls == {"addStaticBox", "addDynamicSphere"}

\* What a call does to the engine: to one that is not initialized, to any
\* at dispose(), and add* to one that is initialized.
CallsOnEngine ==
    /\ (NotInitialized(physicsEngine) /\ envP'.last \in AddCalls) =>
          /\ envP'.thrown
          /\ physicsEngine' = physicsEngine
    /\ (NotInitialized(physicsEngine) /\ envP'.last = "step") =>
          /\ physicsEngine' = physicsEngine
          /\ threeC' = threeC
    /\ envP'.last = "dispose" =>
          /\ physicsEngine'.bodies = <<>>
          /\ NotInitialized(physicsEngine')
    /\ (~NotInitialized(physicsEngine) /\ envP'.last \in AddCalls) =>
          /\ ~envP'.thrown
          /\ \E bodyId \in DOMAIN physicsEngine'.bodies :
                /\ bodyId \notin envP.returned
                /\ bodyId \notin DOMAIN physicsEngine.bodies
                /\ envP'.returned = envP.returned \cup {bodyId}
                /\ DOMAIN physicsEngine'.bodies
                      = DOMAIN physicsEngine.bodies \cup {bodyId}

\* C24: while the engine is not initialized, addStaticBox and
\* addDynamicSphere throw and leave the bodies and the id counter as they
\* were, step changes nothing, and getPosition and getVelocity return null
\* for every id; dispose() leaves no body and no world; on an initialized
\* engine (also one initialized again after dispose) add* returns an id that
\* was never returned before and registers the body under it.
C24_NotInitialized ==
    /\ [](NotInitialized(physicsEngine) =>
             \A bodyId \in 0 .. MaxBodies :
                /\ PhysicsEngine_getPosition(physicsEngine, bodyId) = {}
                /\ PhysicsEngine_getVelocity(physicsEngine, bodyId) = {})
    /\ [][CallsOnEngine]_vars

\* The engine was disposed with a body in it and initialized again, and a
\* sphere added since has got an id that is not the disposed body's.
C24_Witness ==
    /\ envP.disposed
    /\ envP.last = "addDynamicSphere"
    /\ ~envP.thrown
    /\ ~NotInitialized(physicsEngine)
    /\ DOMAIN physicsEngine.bodies = {1}
    /\ envP.returned = {0, 1}

====
